---- MODULE Spec2Model ----
(***************************************************************************)
(* qbit2track: the catalog matcher (src/qbit2track/media/tmdb_matcher.py)  *)
(* and the filename analyzer (src/qbit2track/media/filename_analyzer.py,   *)
(* src/qbit2track/media/file_analyzer.py).                                 *)
(* Strings are sequences of one-character strings, scores are rationals    *)
(* <<numerator, denominator>> (the code computes them as floats), an       *)
(* Optional[int] is an integer with NoneI for None, an Optional[Dict] or   *)
(* Optional[str] is the empty sequence for None and a one-element sequence *)
(* otherwise.                                                              *)
(***************************************************************************)
EXTENDS Integers, Sequences, FiniteSets, TLC

\* ------------------------------------------------------------------------
\* Bounds of the model
\* ------------------------------------------------------------------------
MaxCalls == 1
MaxResults == 3
MaxCacheCalls == 3
MaxTime == 3
MaxTokens == 2

\* ------------------------------------------------------------------------
\* Values
\* ------------------------------------------------------------------------
NoneI == 0 - 1
None == << >>
Some(x) == <<x>>

Truthy(v) == v # NoneI /\ v # 0

Abs(n) == IF n < 0 THEN 0 - n ELSE n

\* ------------------------------------------------------------------------
\* Rationals: the float scores
\* ------------------------------------------------------------------------
R(n) == <<n, 1>>
RAdd(a, b) == <<a[1] * b[2] + b[1] * a[2], a[2] * b[2]>>
RLt(a, b) == a[1] * b[2] < b[1] * a[2]
RLe(a, b) == a[1] * b[2] <= b[1] * a[2]
REq(a, b) == a[1] * b[2] = b[1] * a[2]
RMax(a, b) == IF RLt(a, b) THEN b ELSE a

\* ------------------------------------------------------------------------
\* Strings
\* ------------------------------------------------------------------------
\* a string literal as a sequence of characters
Cs(str) == [i \in 1..Len(str) |-> SubSeq(str, i, i)]

Lowercase == Cs("abcdefghijklmnopqrstuvwxyz")
Uppercase == Cs("ABCDEFGHIJKLMNOPQRSTUVWXYZ")
Letters == {Lowercase[i] : i \in DOMAIN Lowercase} \cup {Uppercase[i] : i \in DOMAIN Uppercase}

\* str.lower() and str.upper(), character by character
LowerChar(c) ==
    IF \E i \in DOMAIN Uppercase : Uppercase[i] = c
    THEN Lowercase[CHOOSE i \in DOMAIN Uppercase : Uppercase[i] = c]
    ELSE c

UpperChar(c) ==
    IF \E i \in DOMAIN Lowercase : Lowercase[i] = c
    THEN Uppercase[CHOOSE i \in DOMAIN Lowercase : Lowercase[i] = c]
    ELSE c

Lower(s) == [i \in 1..Len(s) |-> LowerChar(s[i])]
Upper(s) == [i \in 1..Len(s) |-> UpperChar(s[i])]

\* F(x) with x computed first: the argument of an operator is otherwise computed where
\* it is used, inside whatever is being computed there
Eager(F(_), x) == CHOOSE y \in {F(v) : v \in {x}} : TRUE

RECURSIVE Fold(_, _, _, _)
\* a loop: acc = Step(n, acc) for n = lo, ..., hi in this order; the range is halved
\* so that the depth of the computation grows with the logarithm of its length
Fold(Step(_, _), acc, lo, hi) ==
    IF lo > hi THEN acc
    ELSE IF lo = hi THEN Step(lo, acc)
    ELSE Eager(LAMBDA half : Fold(Step, half, (lo + hi) \div 2 + 1, hi),
               Fold(Step, acc, lo, (lo + hi) \div 2))

\* s[i..j] as Python's s[i-1:j]
Slice(s, i, j) == IF i > j THEN << >> ELSE SubSeq(s, i, j)

\* needle in hay (Python's substring test)
IsSubstring(needle, hay) ==
    \E i \in 1..(Len(hay) - Len(needle) + 1) :
        Slice(hay, i, i + Len(needle) - 1) = needle

RECURSIVE SplitFrom(_, _, _, _)
\* str.split(): the maximal runs of non-space characters, in order
SplitFrom(s, i, cur, acc) ==
    IF i > Len(s)
    THEN IF cur = << >> THEN acc ELSE Append(acc, cur)
    ELSE IF s[i] = " "
         THEN SplitFrom(s, i + 1, << >>, IF cur = << >> THEN acc ELSE Append(acc, cur))
         ELSE SplitFrom(s, i + 1, Append(cur, s[i]), acc)

Split(s) == SplitFrom(s, 1, << >>, << >>)

RECURSIVE Join(_)
\* ' '.join(words)
Join(ws) ==
    IF ws = << >> THEN << >>
    ELSE IF Len(ws) = 1 THEN ws[1]
    ELSE ws[1] \o <<" ">> \o Join(Tail(ws))

DigitChar(d) ==
    CASE d = 0 -> "0" [] d = 1 -> "1" [] d = 2 -> "2" [] d = 3 -> "3" [] d = 4 -> "4"
      [] d = 5 -> "5" [] d = 6 -> "6" [] d = 7 -> "7" [] d = 8 -> "8" [] OTHER -> "9"

Digits == {"0", "1", "2", "3", "4", "5", "6", "7", "8", "9"}

DigitVal(c) == CHOOSE d \in 0..9 : DigitChar(d) = c

RECURSIVE NatStr(_)
NatStr(n) == IF n < 10 THEN <<DigitChar(n)>> ELSE Append(NatStr(n \div 10), DigitChar(n % 10))

\* str(v) of an Optional[int]
Str(v) == IF v = NoneI THEN <<"N", "o", "n", "e">> ELSE NatStr(v)

\* int(s) succeeds on a non-empty string of digits and raises ValueError otherwise
IntParses(s) == s # << >> /\ \A i \in 1..Len(s) : s[i] \in Digits

RECURSIVE IntOf(_)
IntOf(s) == IF s = << >> THEN 0 ELSE IntOf(SubSeq(s, 1, Len(s) - 1)) * 10 + DigitVal(s[Len(s)])

\* date.split('-')[0]
YearPart(date) ==
    IF \E i \in 1..Len(date) : date[i] = "-"
    THEN LET k == CHOOSE i \in 1..Len(date) :
                      date[i] = "-" /\ \A j \in 1..(i - 1) : date[j] # "-"
         IN  Slice(date, 1, k - 1)
    ELSE date

\* ------------------------------------------------------------------------
\* difflib.SequenceMatcher(None, a, b).ratio() = 2*M/T, M the total size of
\* the matching blocks, T = len(a) + len(b) (1.0 when T = 0)
\* ------------------------------------------------------------------------
RECURSIVE RunLen(_, _, _, _, _, _)
\* length of the common run a[i..], b[j..] inside a[..ahi], b[..bhi]
RunLen(a, b, i, j, ahi, bhi) ==
    IF i > ahi \/ j > bhi \/ a[i] # b[j] THEN 0
    ELSE 1 + RunLen(a, b, i + 1, j + 1, ahi, bhi)

\* find_longest_match: the longest block, the earliest in a, then the earliest in b
LongestMatch(a, b, alo, ahi, blo, bhi) ==
    LET P == (alo..ahi) \X (blo..bhi)
        K(p) == RunLen(a, b, p[1], p[2], ahi, bhi)
    IN  IF P = {} THEN <<alo, blo, 0>>
        ELSE LET best == CHOOSE p \in P :
                             \A q \in P :
                                 \/ K(q) < K(p)
                                 \/ K(q) = K(p) /\ (p[1] < q[1] \/ (p[1] = q[1] /\ p[2] <= q[2]))
             IN  <<best[1], best[2], K(best)>>

RECURSIVE MatchTotal(_, _, _, _, _, _)
\* get_matching_blocks: the longest block, then the same to its left and to its right
MatchTotal(a, b, alo, ahi, blo, bhi) ==
    IF alo > ahi \/ blo > bhi THEN 0
    ELSE LET m == LongestMatch(a, b, alo, ahi, blo, bhi)
         IN  IF m[3] = 0 THEN 0
             ELSE m[3] + MatchTotal(a, b, alo, m[1] - 1, blo, m[2] - 1)
                       + MatchTotal(a, b, m[1] + m[3], ahi, m[2] + m[3], bhi)

Ratio(a, b) ==
    IF Len(a) + Len(b) = 0 THEN R(1)
    ELSE <<2 * MatchTotal(a, b, 1, Len(a), 1, Len(b)), Len(a) + Len(b)>>

\* ------------------------------------------------------------------------
\* Catalog candidates and match requests (the inputs)
\* ------------------------------------------------------------------------
\* a search result: id, title / name, original_title / original_name,
\* release_date / first_air_date
Pool ==
    { [id |-> 1, title |-> <<"a", "b">>, original_title |-> <<"a", "b">>,
       date |-> <<"2", "0", "0", "0", "-", "0", "5">>],
      [id |-> 2, title |-> <<"A", "b">>, original_title |-> <<"x", "f">>,
       date |-> <<"1", "9", "9", "9">>],
      [id |-> 3, title |-> <<"z", "z", "z", "z", "z", "z", "z", "z", "z", "z", "z", "z", "z", "z">>,
       original_title |-> <<"z", "e">>, date |-> <<"x", "x">>] }

CandById(i) == CHOOSE c \in Pool : c.id = i

\* MediaInfo: the fields the matcher reads
Requests ==
    { [title |-> <<"A", "b">>, year |-> 2000, type |-> "movie",
       season |-> NoneI, episode |-> NoneI],
      [title |-> <<"a", "b", " ", "c", "d">>, year |-> NoneI, type |-> "tvshow",
       season |-> 1, episode |-> 2],
      [title |-> <<"a", "b", " ", "c", "d", " ", "e", " ", "f">>, year |-> NoneI, type |-> "movie",
       season |-> NoneI, episode |-> NoneI],
      [title |-> <<"a", "b">>, year |-> NoneI, type |-> "movie",
       season |-> NoneI, episode |-> NoneI],
      [title |-> <<"a", "b">>, year |-> NoneI, type |-> "anime",
       season |-> 1, episode |-> NoneI],
      [title |-> <<"a", "b">>, year |-> NoneI, type |-> "other",
       season |-> NoneI, episode |-> NoneI] }

\* ------------------------------------------------------------------------
\* Scoring (tmdb_matcher.py:159-199 and 277-317)
\* ------------------------------------------------------------------------
ScoreExact == 100
ScoreExactOriginal == 90
ScoreInTitle == 70
ScoreInOriginal == 60
ScoreTitleIn == 50
ScoreOriginalIn == 40
FuzzyWeight == 30
YearExact == 20
YearNear == 10
YearWindow == 2
LengthSlack == 10

\* max(similarity, similarity_orig) * 30
FuzzyOf(m) == <<m[1] * FuzzyWeight, m[2]>>
Fuzzy(similarity, similarity_orig) == FuzzyOf(RMax(similarity, similarity_orig))

\* the title part of the score of a movie candidate (tmdb_matcher.py:160-186)
MovieTitleScore(media_title_lower, result_title_lower, result_original_lower) ==
    IF media_title_lower = result_title_lower THEN R(ScoreExact)
    ELSE IF media_title_lower = result_original_lower THEN R(ScoreExactOriginal)
    ELSE IF IsSubstring(media_title_lower, result_title_lower) THEN R(ScoreInTitle)
    ELSE IF IsSubstring(media_title_lower, result_original_lower) THEN R(ScoreInOriginal)
    ELSE IF IsSubstring(result_title_lower, media_title_lower) THEN R(ScoreTitleIn)
    ELSE IF IsSubstring(result_original_lower, media_title_lower) THEN R(ScoreOriginalIn)
    ELSE Fuzzy(Ratio(media_title_lower, result_title_lower),
               Ratio(media_title_lower, result_original_lower))

\* the year bonus, result_year the text before the first '-' of the date
\* (tmdb_matcher.py:190-194): int(result_year) raises unless it is a number
MovieYearBonus(score, year, result_year) ==
    IF Str(year) = result_year
    THEN [raised |-> FALSE, score |-> RAdd(score, R(YearExact))]
    ELSE IF ~IntParses(result_year)
    THEN [raised |-> TRUE, score |-> score]
    ELSE IF Abs(IntOf(result_year) - year) <= YearWindow
    THEN [raised |-> FALSE, score |-> RAdd(score, R(YearNear))]
    ELSE [raised |-> FALSE, score |-> score]

\* the length penalty (tmdb_matcher.py:197-199)
MovieLengthPenalty(sc, length_diff) ==
    [raised |-> sc.raised,
     score |-> IF length_diff > LengthSlack THEN RAdd(sc.score, R(0 - length_diff))
               ELSE sc.score]

\* the score after the title and the year (tmdb_matcher.py:189-194)
MovieTitleYearScore(score, year, release_date) ==
    IF Truthy(year) /\ release_date # << >>
    THEN MovieYearBonus(score, year, YearPart(release_date))
    ELSE [raised |-> FALSE, score |-> score]

\* the score of one movie candidate: [raised, score] (tmdb_matcher.py:159-199)
MovieScore(title, year, result) ==
    MovieLengthPenalty(
        MovieTitleYearScore(
            MovieTitleScore(Lower(title), Lower(result.title), Lower(result.original_title)),
            year, result.date),
        Abs(Len(Lower(title)) - Len(Lower(result.title))))

\* the title part of the score of a TV candidate (tmdb_matcher.py:278-304)
TvTitleScore(media_title_lower, result_title_lower, result_original_lower) ==
    IF media_title_lower = result_title_lower THEN R(ScoreExact)
    ELSE IF media_title_lower = result_original_lower THEN R(ScoreExactOriginal)
    ELSE IF IsSubstring(media_title_lower, result_title_lower) THEN R(ScoreInTitle)
    ELSE IF IsSubstring(media_title_lower, result_original_lower) THEN R(ScoreInOriginal)
    ELSE IF IsSubstring(result_title_lower, media_title_lower) THEN R(ScoreTitleIn)
    ELSE IF IsSubstring(result_original_lower, media_title_lower) THEN R(ScoreOriginalIn)
    ELSE Fuzzy(Ratio(media_title_lower, result_title_lower),
               Ratio(media_title_lower, result_original_lower))

\* the year bonus, result_year the text before the first '-' of the date
\* (tmdb_matcher.py:308-312): int(result_year) raises unless it is a number
TvYearBonus(score, year, result_year) ==
    IF Str(year) = result_year
    THEN [raised |-> FALSE, score |-> RAdd(score, R(YearExact))]
    ELSE IF ~IntParses(result_year)
    THEN [raised |-> TRUE, score |-> score]
    ELSE IF Abs(IntOf(result_year) - year) <= YearWindow
    THEN [raised |-> FALSE, score |-> RAdd(score, R(YearNear))]
    ELSE [raised |-> FALSE, score |-> score]

\* a variant that subtracts the slack instead of the length difference
TvLengthPenaltyFlat(sc, length_diff) ==
    [raised |-> sc.raised,
     score |-> IF length_diff > LengthSlack THEN RAdd(sc.score, R(0 - LengthSlack))
               ELSE sc.score]

\* the length penalty (tmdb_matcher.py:315-317)
TvLengthPenalty(sc, length_diff) ==
    [raised |-> sc.raised,
     score |-> IF length_diff > LengthSlack THEN RAdd(sc.score, R(0 - length_diff))
               ELSE sc.score]

\* the score after the title and the year (tmdb_matcher.py:307-312)
TvTitleYearScore(score, year, first_air_date) ==
    IF Truthy(year) /\ first_air_date # << >>
    THEN TvYearBonus(score, year, YearPart(first_air_date))
    ELSE [raised |-> FALSE, score |-> score]

\* the score of one TV candidate: [raised, score] (tmdb_matcher.py:277-317)
TvScore(title, year, result) ==
    TvLengthPenalty(
        TvTitleYearScore(
            TvTitleScore(Lower(title), Lower(result.title), Lower(result.original_title)),
            year, result.date),
        Abs(Len(Lower(title)) - Len(Lower(result.title))))

\* ------------------------------------------------------------------------
\* Cache (tmdb_matcher.py:334-383)
\* ------------------------------------------------------------------------
\* config.app.cache_expiry, in the model's time unit
CacheExpiry == 1

TypeChars(t) ==
    CASE t = "movie" -> <<"m", "o", "v", "i", "e">>
      [] t = "tvshow" -> <<"t", "v", "s", "h", "o", "w">>
      [] t = "anime" -> <<"a", "n", "i", "m", "e">>
      [] OTHER -> <<"o", "t", "h", "e", "r">>

\* _get_cache_key: the formatted string; md5 is taken as injective on the strings
\* of the model, so the key is the string itself
GetCacheKey(media_info) ==
    media_info.title \o <<"_">> \o Str(media_info.year) \o <<"_">> \o TypeChars(media_info.type)
        \o <<"_">> \o Str(media_info.season) \o <<"_">> \o Str(media_info.episode)

\* a variant that takes an entry of age cache_expiry as expired
GetFromCacheStrict(c, cache_key, t) ==
    IF cache_key \in DOMAIN c
    THEN IF t - c[cache_key].timestamp < CacheExpiry
         THEN [data |-> Some(c[cache_key].data), cache |-> c]
         ELSE [data |-> None, cache |-> [k \in DOMAIN c \ {cache_key} |-> c[k]]]
    ELSE [data |-> None, cache |-> c]

\* a variant that leaves an expired entry in the cache
GetFromCacheKeeps(c, cache_key, t) ==
    IF cache_key \in DOMAIN c /\ t - c[cache_key].timestamp <= CacheExpiry
    THEN [data |-> Some(c[cache_key].data), cache |-> c]
    ELSE [data |-> None, cache |-> c]

\* _get_from_cache: the value returned and the cache left behind
GetFromCache(c, cache_key, t) ==
    IF cache_key \in DOMAIN c
    THEN IF t - c[cache_key].timestamp <= CacheExpiry
         THEN [data |-> Some(c[cache_key].data), cache |-> c]
         ELSE [data |-> None, cache |-> [k \in DOMAIN c \ {cache_key} |-> c[k]]]
    ELSE [data |-> None, cache |-> c]

\* _set_cache: the cache left behind
SetCache(c, cache_key, data, t) ==
    [k \in DOMAIN c \cup {cache_key} |->
        IF k = cache_key THEN [data |-> data, timestamp |-> t] ELSE c[k]]

EmptyCache == [k \in {} |-> 0]

\* the cache file: absent, unreadable or malformed, or a JSON object of entries
NoFile == [state |-> "none", data |-> EmptyCache]
CorruptFile == [state |-> "corrupt", data |-> EmptyCache]
CacheFile(c) == [state |-> "ok", data |-> c]

\* no second matcher
NoOther == [cache |-> EmptyCache, alive |-> "none", file |-> NoFile]

\* a variant whose exception handler is missing: the failure reaches the constructor
LoadCacheUncaught(d, t) ==
    IF d.state = "ok"
    THEN [k \in {x \in DOMAIN d.data : ~(t - d.data[x].timestamp > CacheExpiry)} |-> d.data[k]]
    ELSE IF d.state = "corrupt" THEN <<"raised">>
    ELSE EmptyCache

\* _load_cache (tmdb_matcher.py:339-356): the entries of the file that are not
\* expired; {} when there is no file or reading it raises
LoadCache(d, t) ==
    IF d.state = "ok"
    THEN [k \in {x \in DOMAIN d.data : ~(t - d.data[x].timestamp > CacheExpiry)} |-> d.data[k]]
    ELSE EmptyCache

\* how a _save_cache may end: written, failed before the file was opened for
\* writing, failed after it was truncated
SaveOutcomes == {"saved", "unopened", "partial"}

\* a save that adds the entries to those of the file
SaveCacheMerged(c, d, outcome) ==
    IF outcome = "saved"
    THEN CacheFile([k \in DOMAIN d.data \cup DOMAIN c |->
                        IF k \in DOMAIN c THEN c[k] ELSE d.data[k]])
    ELSE IF outcome = "partial" THEN CorruptFile
    ELSE d

\* _save_cache (tmdb_matcher.py:358-365): the file left behind
SaveCache(c, d, outcome) ==
    IF outcome = "saved" THEN CacheFile(c)
    ELSE IF outcome = "partial" THEN CorruptFile
    ELSE d

\* ------------------------------------------------------------------------
\* Progressive retry (tmdb_matcher.py:65-118)
\* ------------------------------------------------------------------------
GoodScore == 60
PerfectScore == 100

\* int((n * 0.6) + 0.5)
MinWordCount(n) == (6 * n + 5) \div 10

\* a variant that replaces the best result on an equal score too
KeepsBestOrEqual(result, score, best_score) == result # None /\ RLe(best_score, score)

\* if result and score > best_score: the best result of the retry loop
KeepsBest(result, score, best_score) == result # None /\ RLt(best_score, score)

\* if result and (score >= 60 or current_title == original_title)
ReturnsNow(result, score, current_title, original_title) ==
    result # None /\ (RLe(R(GoodScore), score) \/ current_title = original_title)

\* ------------------------------------------------------------------------
\* Candidate loop (tmdb_matcher.py:140-209 and 237-327)
\* ------------------------------------------------------------------------
\* a variant that replaces the best match on an equal score too
BeatsBestOrEqual(score, best_score) == RLe(best_score, score)

\* if score > best_score
BeatsBest(score, best_score) == RLt(best_score, score)

\* a variant that leaves the loop only above 100
EarlyExitAbove(score) == RLt(R(PerfectScore), score)

\* if score >= 100: break
EarlyExit(score) == RLe(R(PerfectScore), score)

\* current_match of a movie candidate (the fields the model follows)
MovieMatch(result) ==
    [tmdb_id |-> result.id, episode_data |-> None, season_data |-> None,
     season |-> NoneI, episode |-> NoneI]

\* current_match of a TV candidate
TvMatch(result, episode_data, season_data, season, episode) ==
    [tmdb_id |-> result.id, episode_data |-> episode_data, season_data |-> season_data,
     season |-> season, episode |-> episode]

\* the score of a candidate in either loop
CandScore(isMovie, title, year, result) ==
    IF isMovie THEN MovieScore(title, year, result) ELSE TvScore(title, year, result)

\* one pass of the candidate loop once the candidate is scored:
\* [raised, score, best_match, best_score, stop]
CandStep(sc, current_match, best_match, best_score) ==
    [raised |-> sc.raised,
     score |-> sc.score,
     best_match |-> IF BeatsBest(sc.score, best_score) THEN Some(current_match) ELSE best_match,
     best_score |-> IF BeatsBest(sc.score, best_score) THEN sc.score ELSE best_score,
     stop |-> EarlyExit(sc.score)]

RECURSIVE LoopFold(_, _, _, _, _, _, _)
\* the candidate loop as a whole, every lookup succeeding (tmdb_matcher.py:140-209,
\* 237-327): [raised, best_match, best_score] from candidate i of the results on
LoopFold(isMovie, title, year, results, i, best_match, best_score) ==
    IF i > Len(results)
    THEN [raised |-> FALSE, best_match |-> best_match, best_score |-> best_score]
    ELSE LET result == CandById(results[i])
             st == CandStep(CandScore(isMovie, title, year, result), MovieMatch(result),
                            best_match, best_score)
         IN  IF st.raised
             THEN [raised |-> TRUE, best_match |-> None, best_score |-> R(0)]
             ELSE IF st.stop
             THEN [raised |-> FALSE, best_match |-> st.best_match, best_score |-> st.best_score]
             ELSE LoopFold(isMovie, title, year, results, i + 1, st.best_match, st.best_score)


\* ------------------------------------------------------------------------
\* Characters
\* ------------------------------------------------------------------------
\* \w, \s, \W and . over the characters file names are made of here
WordChars == Letters \cup Digits \cup {"_"}
SpaceChars == {" "}
NonWordChars == SpaceChars \cup {".", "-", "+", "(", ")", "[", "]", "{", "}", "'", "|"}
Chars == WordChars \cup NonWordChars

\* str.rstrip(): s up to its last character that is not white space
RStrip(s) ==
    IF \A i \in DOMAIN s : s[i] \in SpaceChars THEN << >>
    ELSE SubSeq(s, 1, CHOOSE i \in DOMAIN s :
                         s[i] \notin SpaceChars /\ \A j \in (i + 1)..Len(s) : s[j] \in SpaceChars)

\* str.lstrip()
LStrip(s) ==
    IF \A i \in DOMAIN s : s[i] \in SpaceChars THEN << >>
    ELSE SubSeq(s, CHOOSE i \in DOMAIN s :
                      s[i] \notin SpaceChars /\ \A j \in 1..(i - 1) : s[j] \in SpaceChars,
                Len(s))

\* str.strip()
Strip(s) == LStrip(RStrip(s))

\* str.title(): a letter that follows a letter is lowered, any other letter is raised
TitleCase(s) ==
    [i \in 1..Len(s) |->
        IF i > 1 /\ s[i - 1] \in Letters THEN LowerChar(s[i]) ELSE UpperChar(s[i])]

\* ------------------------------------------------------------------------
\* Regular expressions (Python's re): a pattern is a sequence of items, matched by
\* backtracking, alternatives in their order, a repeat greedy or lazy as written
\* ------------------------------------------------------------------------
\* a literal string
Lit(w) == [k |-> "lit", w |-> Cs(w)]
\* lo to hi characters of the class cs (hi = NoneI: any number)
Chr(cs, lo, hi, greedy) == [k |-> "chr", cs |-> cs, lo |-> lo, hi |-> hi, greedy |-> greedy]
\* a|b|...
Alt(alts) == [k |-> "alt", alts |-> alts]
\* an opening or closing parenthesis of a group
Mark == [k |-> "mark"]
\* \b
WordBoundary == [k |-> "b"]
\* $
AtEnd == [k |-> "end"]

NoMatch == [ok |-> FALSE]

MinOf(set) == CHOOSE x \in set : \A y \in set : x <= y
MaxOf(set) == CHOOSE x \in set : \A y \in set : y <= x

IsWordAt(s, i) == i >= 1 /\ i <= Len(s) /\ s[i] \in WordChars

\* how many characters of s from position i on are of the class cs, hi at most
\* (hi = NoneI: any number)
RunOf(cs, s, i, hi) ==
    MaxOf({m \in 0..(IF hi = NoneI \/ Len(s) - i + 1 < hi THEN Len(s) - i + 1 ELSE hi) :
              \A j \in i..(i + m - 1) : s[j] \in cs})

RECURSIVE MatchAt(_, _, _, _)

\* the repeat at the head of p, the counts after which the rest of p matches given:
\* the largest one is taken when the repeat is greedy, the smallest when it is lazy
TryCounts(p, s, i, marks, counts) ==
    IF counts = {} THEN NoMatch
    ELSE MatchAt(Tail(p), s,
                 i + (IF Head(p).greedy THEN MaxOf(counts) ELSE MinOf(counts)), marks)

\* the alternatives at the head of p, those with which p matches given: the first
TryBranches(p, s, i, marks, branches) ==
    IF branches = {} THEN NoMatch
    ELSE MatchAt(Head(p).alts[MinOf(branches)] \o Tail(p), s, i, marks)

\* the match of pattern p that begins at position i of s, the group marks passed so far
MatchAt(p, s, i, marks) ==
    IF p = << >> THEN [ok |-> TRUE, end |-> i, marks |-> marks]
    ELSE CASE Head(p).k = "lit" ->
                  IF i + Len(Head(p).w) - 1 <= Len(s)
                     /\ SubSeq(s, i, i + Len(Head(p).w) - 1) = Head(p).w
                  THEN MatchAt(Tail(p), s, i + Len(Head(p).w), marks)
                  ELSE NoMatch
           [] Head(p).k = "chr" ->
                  TryCounts(p, s, i, marks,
                            {m \in Head(p).lo..RunOf(Head(p).cs, s, i, Head(p).hi) :
                                MatchAt(Tail(p), s, i + m, marks).ok})
           [] Head(p).k = "alt" ->
                  TryBranches(p, s, i, marks,
                              {n \in DOMAIN Head(p).alts :
                                  MatchAt(Head(p).alts[n] \o Tail(p), s, i, marks).ok})
           [] Head(p).k = "mark" -> MatchAt(Tail(p), s, i, Append(marks, i))
           [] Head(p).k = "b" ->
                  IF IsWordAt(s, i - 1) # IsWordAt(s, i)
                  THEN MatchAt(Tail(p), s, i, marks)
                  ELSE NoMatch
           [] OTHER ->
                  IF i = Len(s) + 1 THEN MatchAt(Tail(p), s, i, marks) ELSE NoMatch

\* a match found at position i
Found(r, i) == [ok |-> TRUE, start |-> i, end |-> r.end, marks |-> r.marks]

\* the leftmost of the positions at which p matches
Leftmost(p, s, starts) ==
    IF starts = {} THEN NoMatch
    ELSE Found(MatchAt(p, s, MinOf(starts), << >>), MinOf(starts))

\* the leftmost match of p in s that begins at position i or later
SearchFrom(p, s, i) ==
    Leftmost(p, s, {j \in i..(Len(s) + 1) : MatchAt(p, s, j, << >>).ok})

\* re.search(p, s)
ReSearch(p, s) == SearchFrom(p, s, 1)

\* match.group(n) and match.group()
Group(s, m, n) == Slice(s, m.marks[2 * n - 1], m.marks[2 * n] - 1)
Whole(s, m) == Slice(s, m.start, m.end - 1)

RECURSIVE SubFrom(_, _, _, _)

\* s from position i on, the match m and every later one replaced
Replaced(p, repl, s, i, m) ==
    IF ~m.ok THEN Slice(s, i, Len(s))
    ELSE Slice(s, i, m.start - 1) \o repl \o SubFrom(p, repl, s, m.end)

SubFrom(p, repl, s, i) == Replaced(p, repl, s, i, SearchFrom(p, s, i))

\* re.sub(p, repl, s); no pattern used with it matches the empty string
ReSub(p, repl, s) == SubFrom(p, repl, s, 1)

\* the match of the first pattern of the list that is found in s
FirstOf(patterns, s, found) ==
    IF found = {} THEN NoMatch ELSE ReSearch(patterns[MinOf(found)], s)

\* the match of the last pattern of the list that is found in s
LastMatch(patterns, s) ==
    FirstOf([n \in DOMAIN patterns |-> patterns[Len(patterns) + 1 - n]], s,
            {n \in DOMAIN patterns : ReSearch(patterns[Len(patterns) + 1 - n], s).ok})

FirstMatch(patterns, s) ==
    FirstOf(patterns, s, {n \in DOMAIN patterns : ReSearch(patterns[n], s).ok})

\* s.split(sep)[0]
BeforeFirst(s, sep) ==
    IF IsSubstring(sep, s)
    THEN Slice(s, 1, (CHOOSE i \in 1..Len(s) :
                         /\ i + Len(sep) - 1 <= Len(s)
                         /\ SubSeq(s, i, i + Len(sep) - 1) = sep
                         /\ \A j \in 1..(i - 1) : SubSeq(s, j, j + Len(sep) - 1) # sep) - 1)
    ELSE s

\* RESOLUTION_PATTERNS (filename_analyzer.py:16-22)
RESOLUTION_PATTERNS ==
    <<
      <<Mark, Alt(<<<<Lit("2160p")>>, <<Lit("4klight")>>, <<Lit("4k"), Chr(NonWordChars, 1, 1,
        TRUE), Lit("sdr")>>, <<Lit("4k")>>, <<Lit("sdr")>>>>), Mark>>,
      <<Mark, Alt(<<<<Lit("1080p")>>, <<Lit("fhd")>>, <<Lit("fullhd")>>, <<Lit("hdlight")>>,
        <<Lit("mhd")>>, <<Lit("minihd")>>>>), Mark>>,
      <<Mark, Alt(<<<<Lit("720p")>>, <<Lit("hd")>>>>), Mark>>,
      <<Mark, Alt(<<<<Lit("480p")>>, <<Lit("sd")>>>>), Mark>>,
      <<Mark, Alt(<<<<Lit("360p")>>, <<Lit("vga")>>, <<Lit("vcd")>>, <<Lit("pal")>>,
        <<Lit("ntsc")>>>>), Mark>>
    >>

\* HDR_PATTERNS (filename_analyzer.py:24-26)
HDR_PATTERNS ==
    <<
      <<Mark, Alt(<<<<Lit("10bit")>>, <<Lit("12bit")>>, <<Lit("hdr10plus")>>,
        <<Lit("hdr10+")>>, <<Lit("hdr10")>>, <<Lit("hdr2100")>>, <<Lit("hdr")>>,
        <<Lit("dolby"), Chr(NonWordChars, 0, 1, TRUE), Lit("vision")>>, <<Lit("dv+")>>,
        <<Lit("dv")>>, <<Lit("hlg")>>>>), Mark>>
    >>

\* VIDEO_CODEC_PATTERNS (filename_analyzer.py:28-30)
VIDEO_CODEC_PATTERNS ==
    <<
      <<Mark, Alt(<<<<Lit("x264")>>, <<Lit("x265")>>, <<Lit("h264")>>, <<Lit("h265")>>,
        <<Lit("hevc")>>, <<Lit("avc")>>, <<Lit("vc-1")>>, <<Lit("vp9")>>, <<Lit("av1")>>>>),
        Mark>>
    >>

\* AUDIO_CODEC_PATTERNS (filename_analyzer.py:32-34)
AUDIO_CODEC_PATTERNS ==
    <<
      <<Mark, Alt(<<<<Lit("aac"), Chr(NonWordChars, 0, 1, TRUE), Chr(Digits, 1, 1, TRUE),
        Lit("."), Chr(Digits, 1, 1, TRUE)>>, <<Lit("aac")>>, <<Lit("ac3"), Chr(NonWordChars, 0,
        1, TRUE), Chr(Digits, 1, 1, TRUE), Lit("."), Chr(Digits, 1, 1, TRUE)>>, <<Lit("ac3")>>,
        <<Lit("dts"), Chr(NonWordChars, 0, 1, TRUE), Chr(Digits, 1, 1, TRUE), Lit("."),
        Chr(Digits, 1, 1, TRUE)>>, <<Lit("dts"), Chr(NonWordChars, 0, 1, TRUE), Chr(Digits, 1,
        1, TRUE), Lit("."), Chr(Digits, 1, 1, TRUE)>>, <<Lit("dts-hdma"), Chr(NonWordChars, 0,
        1, TRUE), Chr(Digits, 1, 1, TRUE), Lit("."), Chr(Digits, 1, 1, TRUE)>>,
        <<Lit("dts-hd"), Chr(NonWordChars, 0, 1, TRUE), Chr(Digits, 1, 1, TRUE), Lit("."),
        Chr(Digits, 1, 1, TRUE)>>, <<Lit("dts")>>, <<Lit("dts-hdma")>>, <<Lit("dts-hd")>>,
        <<Lit("flac")>>, <<Lit("mp3")>>, <<Lit("opus")>>, <<Lit("ddp"), Chr(NonWordChars, 0, 1,
        TRUE), Chr(Digits, 1, 1, TRUE), Lit("."), Chr(Digits, 1, 1, TRUE)>>, <<Lit("ddp")>>,
        <<Lit("dpp"), Chr(NonWordChars, 0, 1, TRUE), Chr(Digits, 1, 1, TRUE), Lit("."),
        Chr(Digits, 1, 1, TRUE)>>, <<Lit("dpp")>>, <<Lit("e-ac3")>>, <<Lit("d"), Chr({"d"}, 1,
        NoneI, TRUE)>>, <<Lit("atmos"), Chr(NonWordChars, 0, 1, TRUE), Chr(Digits, 1, 1, TRUE),
        Lit("."), Chr(Digits, 1, 1, TRUE)>>, <<Lit("atmos")>>, <<Lit("truehd")>>,
        <<Lit("8ch")>>, <<Lit("6ch")>>>>), Mark>>
    >>

\* FILE_SOURCE_PATTERNS (filename_analyzer.py:36-38)
FILE_SOURCE_PATTERNS ==
    <<
      <<Mark, Alt(<<<<Lit("webdl")>>, <<Lit("web-dl")>>, <<Lit("webrip")>>, <<Lit("dvdrip")>>,
        <<Lit("bdrip")>>, <<Lit("bd")>>, <<Lit("dvd5")>>, <<Lit("dvd9")>>, <<Lit("bluray5")>>,
        <<Lit("bluray9")>>, <<Lit("bluray")>>, <<Lit("web"), Chr(Chars, 1, 1, TRUE),
        Lit("ad")>>, <<Lit("web")>>, <<Lit("dvd")>>, <<Lit("xvid")>>, <<Lit("brrip")>>>>),
        Mark>>
    >>

\* TEAM_PATTERNS (filename_analyzer.py:40-49)
TEAM_PATTERNS ==
    <<
      <<Chr(NonWordChars, 1, 1, TRUE), Mark, Chr(WordChars, 2, 8, TRUE), Mark,
        Chr(NonWordChars, 1, 1, TRUE), Lit("("), Chr(WordChars, 1, NoneI, TRUE),
        Chr(NonWordChars, 0, NoneI, TRUE), Lit(")."), Chr(WordChars, 3, 3, TRUE), AtEnd>>,
      <<Chr(NonWordChars, 1, 1, TRUE), Mark, Chr(WordChars, 2, 8, TRUE), Mark,
        Chr(NonWordChars, 1, 1, TRUE), Lit("("), Chr(WordChars, 1, NoneI, TRUE),
        Chr(NonWordChars, 0, NoneI, TRUE), Lit(")"), AtEnd>>,
      <<Chr(NonWordChars, 1, 1, TRUE), Mark, Chr(WordChars, 2, 8, TRUE), Mark, Lit("."),
        Chr(WordChars, 3, 3, TRUE), AtEnd>>,
      <<Chr(NonWordChars, 1, 1, TRUE), Mark, Chr(WordChars, 2, 8, TRUE), Mark, AtEnd>>,
      <<Lit("("), Mark, Chr(WordChars, 2, 8, TRUE), Mark, Lit(")."), Chr(WordChars, 3, 3,
        TRUE), AtEnd>>,
      <<Lit("["), Mark, Chr(WordChars, 2, 8, TRUE), Mark, Lit("]"), AtEnd>>,
      <<Mark, Lit("tsundere-raws"), Mark, Lit(" (cr)")>>,
      <<Mark, Lit("tsundere-raws"), Mark>>
    >>

\* PLATFORM_PATTERNS (filename_analyzer.py:51-53)
PLATFORM_PATTERNS ==
    <<
      <<Chr(NonWordChars, 1, 1, TRUE), Mark, Alt(<<<<Lit("hmax")>>, <<Lit("netflix")>>,
        <<Lit("nf")>>, <<Lit("amazon")>>, <<Lit("disney+")>>, <<Lit("apple tv+")>>,
        <<Lit("apple tv")>>, <<Lit("youtube")>>, <<Lit("orange")>>, <<Lit("vimeo")>>,
        <<Lit("crunchyroll")>>, <<Lit("funimation")>>, <<Lit("hbo max")>>,
        <<Lit("disney plus")>>, <<Lit("hulu plus")>>, <<Lit("hbo go")>>, <<Lit("hbo")>>,
        <<Lit("hulu")>>, <<Lit("disney")>>>>), Mark, Chr(NonWordChars, 1, 1, TRUE)>>
    >>

\* SPECIAL_VERSION_PATTERNS (filename_analyzer.py:55-57)
SPECIAL_VERSION_PATTERNS ==
    <<
      <<Chr(NonWordChars, 1, 1, TRUE), Mark, Alt(<<<<Lit("extended")>>,
        <<Lit("extended version")>>, <<Lit("extended edition")>>, <<Lit("directors cut")>>,
        <<Lit("final")>>, <<Lit("proper")>>, <<Lit("internal")>>, <<Lit("fansub")>>,
        <<Lit("hybrid")>>, <<Lit("dc")>>, <<Lit("director's cut")>>, <<Lit("custom")>>,
        <<Lit("unrated")>>, <<Lit("unrated version")>>, <<Chr(WordChars, 3, 5, TRUE),
        Lit("logie")>>, <<Lit("complet")>>, <<Lit("repack")>>, <<Lit("reapck")>>,
        <<Lit("remux")>>, <<Lit("integrale")>>, <<Lit("collection")>>, <<Lit("saga")>>>>),
        Mark>>
    >>

\* TRASH_PATTERNS (filename_analyzer.py:59-62)
TRASH_PATTERNS ==
    <<
      <<Chr(NonWordChars, 1, 1, TRUE), Lit("readnfo"), Chr(NonWordChars, 1, 1, TRUE)>>,
      <<Chr(NonWordChars, 1, 1, TRUE), Lit("subforced"), Chr(NonWordChars, 1, 1, TRUE)>>
    >>

\* LANGUAGE_PATTERNS (filename_analyzer.py:65-111), in the dict's order
LANGUAGE_PATTERNS ==
    <<
      [name |-> Cs("French"), patterns |-> <<
          <<Chr(NonWordChars, 1, 1, TRUE), Lit("truefrench"), Chr(NonWordChars, 1, 1, TRUE)>>,
          <<Chr(NonWordChars, 1, 1, TRUE), Lit("french"), Chr(NonWordChars, 1, 1, TRUE)>>,
          <<Chr(NonWordChars, 1, 1, TRUE), Lit("vff"), Chr(NonWordChars, 1, 1, TRUE)>>,
          <<Chr(NonWordChars, 1, 1, TRUE), Lit("vfi"), Chr(NonWordChars, 1, 1, TRUE)>>,
          <<Chr(NonWordChars, 1, 1, TRUE), Lit("vfq"), Chr(NonWordChars, 1, 1, TRUE)>>,
          <<Chr(NonWordChars, 1, 1, TRUE), Lit("vf2"), Chr(NonWordChars, 1, 1, TRUE)>>,
          <<Chr(NonWordChars, 1, 1, TRUE), Lit("vf"), Chr(NonWordChars, 1, 1, TRUE)>>,
          <<Chr(NonWordChars, 1, 1, TRUE), Lit("vof"), Chr(NonWordChars, 1, 1, TRUE)>>,
          <<Chr(NonWordChars, 1, 1, TRUE), Lit("vo"), Chr(NonWordChars, 1, 1, TRUE)>>,
          <<Chr(NonWordChars, 1, 1, TRUE), Lit("vostfr"), Chr(NonWordChars, 1, 1, TRUE)>>,
          <<Chr(NonWordChars, 1, 1, TRUE), Lit("fr"), Chr(NonWordChars, 1, 1, TRUE)>> >>],
      [name |-> Cs("English"), patterns |-> <<
          <<Chr(NonWordChars, 1, 1, TRUE), Lit("en"), Chr(NonWordChars, 1, 1, TRUE)>>,
          <<Chr(NonWordChars, 1, 1, TRUE), Lit("eng"), Chr(NonWordChars, 1, 1, TRUE)>> >>],
      [name |-> Cs("Spanish"), patterns |-> <<
          <<Chr(NonWordChars, 1, 1, TRUE), Lit("es"), Chr(NonWordChars, 1, 1, TRUE)>> >>],
      [name |-> Cs("German"), patterns |-> <<
          <<Chr(NonWordChars, 1, 1, TRUE), Lit("de"), Chr(NonWordChars, 1, 1, TRUE)>>,
          <<Chr(NonWordChars, 1, 1, TRUE), Lit("german"), Chr(NonWordChars, 1, 1, TRUE)>>,
          <<Chr(NonWordChars, 1, 1, TRUE), Lit("deu"), Chr(NonWordChars, 1, 1, TRUE)>>,
          <<Chr(NonWordChars, 1, 1, TRUE), Lit("ger"), Chr(NonWordChars, 1, 1, TRUE)>> >>],
      [name |-> Cs("Italian"), patterns |-> <<
          <<Chr(NonWordChars, 1, 1, TRUE), Lit("it"), Chr(NonWordChars, 1, 1, TRUE)>>,
          <<Chr(NonWordChars, 1, 1, TRUE), Lit("ita"), Chr(NonWordChars, 1, 1, TRUE)>> >>],
      [name |-> Cs("Portuguese"), patterns |-> <<
          <<Chr(NonWordChars, 1, 1, TRUE), Lit("pt"), Chr(NonWordChars, 1, 1, TRUE)>> >>],
      [name |-> Cs("Russian"), patterns |-> <<
          <<Chr(NonWordChars, 1, 1, TRUE), Lit("ru"), Chr(NonWordChars, 1, 1, TRUE)>> >>],
      [name |-> Cs("Japanese"), patterns |-> <<
          <<Chr(NonWordChars, 1, 1, TRUE), Lit("ja"), Chr(NonWordChars, 1, 1, TRUE)>> >>],
      [name |-> Cs("Chinese"), patterns |-> <<
          <<Chr(NonWordChars, 1, 1, TRUE), Lit("zh"), Chr(NonWordChars, 1, 1, TRUE)>> >>],
      [name |-> Cs("Korean"), patterns |-> <<
          <<Chr(NonWordChars, 1, 1, TRUE), Lit("ko"), Chr(NonWordChars, 1, 1, TRUE)>> >>]
    >>

\* LANGUAGES (filename_analyzer.py:113-121), in the dict's order; the last entry is the multi pattern
LANGUAGES ==
    <<
      [pattern |-> <<Chr(NonWordChars, 1, 1, TRUE), Lit("ar"), Chr(NonWordChars, 1, 1, TRUE)>>,
       multi |-> FALSE, lang |-> Cs("Arabic")],
      [pattern |-> <<Chr(NonWordChars, 1, 1, TRUE), Lit("hi"), Chr(NonWordChars, 1, 1, TRUE)>>,
       multi |-> FALSE, lang |-> Cs("Hindi")],
      [pattern |-> <<Chr(NonWordChars, 1, 1, TRUE), Lit("no"), Chr(NonWordChars, 1, 1, TRUE)>>,
       multi |-> FALSE, lang |-> Cs("Norwegian")],
      [pattern |-> <<Chr(NonWordChars, 1, 1, TRUE), Lit("nor"), Chr(NonWordChars, 1, 1, TRUE)>>,
       multi |-> FALSE, lang |-> Cs("Norwegian")],
      [pattern |-> <<Chr(NonWordChars, 1, 1, TRUE), Lit("norwegian"), Chr(NonWordChars, 1, 1, TRUE)>>,
       multi |-> FALSE, lang |-> Cs("Norwegian")],
      [pattern |-> <<Chr(NonWordChars, 1, 1, TRUE), Lit("vo"), Chr(WordChars, 1, 1, TRUE), Lit("{2-4}")>>,
       multi |-> FALSE, lang |-> Cs("Original")],
      [pattern |-> <<Chr(NonWordChars, 1, 1, TRUE), Lit("multi"), Chr(NonWordChars, 1, 1, TRUE)>>,
       multi |-> TRUE, lang |-> Cs("Multi")]
    >>

\* SUBTITLE_LANGUAGES (filename_analyzer.py:123-127), in the dict's order
SUBTITLE_LANGUAGES ==
    <<
      [sub_pattern |-> Cs("vostfr"), lang |-> Cs("French")],
      [sub_pattern |-> Cs("subfr"), lang |-> Cs("French")],
      [sub_pattern |-> Cs("subit"), lang |-> Cs("Italian")],
      [sub_pattern |-> Cs("subes"), lang |-> Cs("Spanish")],
      [sub_pattern |-> Cs("subpt"), lang |-> Cs("Portuguese")],
      [sub_pattern |-> Cs("subru"), lang |-> Cs("Russian")],
      [sub_pattern |-> Cs("subja"), lang |-> Cs("Japanese")],
      [sub_pattern |-> Cs("subzh"), lang |-> Cs("Chinese")],
      [sub_pattern |-> Cs("subko"), lang |-> Cs("Korean")],
      [sub_pattern |-> Cs("subar"), lang |-> Cs("Arabic")],
      [sub_pattern |-> Cs("subhi"), lang |-> Cs("Hindi")]
    >>

\* r'\b(19|20)\d{2}\b' (filename_analyzer.py:194)
year_pattern ==
    <<WordBoundary, Mark, Alt(<<<<Lit("19")>>, <<Lit("20")>>>>), Mark, Chr(Digits, 2, 2, TRUE),
      WordBoundary>>

\* episode_patterns (filename_analyzer.py:290-295), matched without IGNORECASE
episode_patterns ==
    <<
      <<Chr({"S", "s"}, 1, 1, TRUE), Mark, Chr(Digits, 1, 2, TRUE), Mark, Chr({"E", "e"}, 1, 1,
        TRUE), Mark, Chr(Digits, 1, 2, TRUE), Mark>>,
      <<Chr({"S", "s"}, 1, 1, TRUE), Mark, Chr(Digits, 1, 2, TRUE), Mark, Chr({"E", "e"}, 1, 1,
        TRUE), Mark, Chr(Digits, 1, 2, TRUE), Mark>>,
      <<Mark, Chr(Digits, 1, 2, TRUE), Mark, Lit("x"), Mark, Chr(Digits, 1, 2, TRUE), Mark>>,
      <<Lit("S"), Mark, Chr(Digits, 1, 2, TRUE), Mark, Lit("-"), Mark, Chr(Digits, 1, 2, TRUE),
        Mark>>
    >>

\* episode_range_pattern (filename_analyzer.py:301)
episode_range_pattern ==
    <<WordBoundary, Mark, Chr(Digits, 1, 3, TRUE), Mark, Lit("-"), Mark, Chr(Digits, 1, 3,
      TRUE), Mark, WordBoundary>>

\* full_season_patterns (filename_analyzer.py:307-311), matched without IGNORECASE
full_season_patterns ==
    <<
      <<Chr({"S", "s"}, 1, 1, TRUE), Lit("aison"), Chr(SpaceChars, 0, NoneI, TRUE), Mark,
        Chr(Digits, 1, 2, TRUE), Mark>>,
      <<Chr({"S", "s"}, 1, 1, TRUE), Lit("eason"), Chr(SpaceChars, 0, NoneI, TRUE), Mark,
        Chr(Digits, 1, 2, TRUE), Mark>>,
      <<Chr({"S", "s"}, 1, 1, TRUE), Mark, Chr(Digits, 1, 2, TRUE), Mark>>
    >>

\* r'\W(multi|mult[i|i-acute])\W' (filename_analyzer.py:339)
multi_pattern ==
    <<Chr(NonWordChars, 1, 1, TRUE), Mark, Lit("mult"), Chr({"i", "|"}, 1, 1, TRUE), Mark,
      Chr(NonWordChars, 1, 1, TRUE)>>

\* r'\(\d{4}\)' (filename_analyzer.py:363)
year_brackets ==
    <<Lit("("), Chr(Digits, 4, 4, TRUE), Lit(")")>>

\* patterns_to_remove (filename_analyzer.py:366-370)
patterns_to_remove ==
    <<
      <<Lit("["), Chr(Chars, 0, NoneI, FALSE), Lit("]")>>,
      <<Lit("("), Chr(Chars, 0, NoneI, FALSE), Lit(")")>>,
      <<Lit("{"), Chr(Chars, 0, NoneI, FALSE), Lit("}")>>
    >>

\* common_patterns (filename_analyzer.py:380-389)
common_patterns ==
    <<
      <<WordBoundary, Mark, Lit("mult"), Chr({"i", "|"}, 1, 1, TRUE), Mark, WordBoundary>>,
      <<WordBoundary, Mark, Alt(<<<<Lit("1080p")>>, <<Lit("720p")>>, <<Lit("2160p")>>,
        <<Lit("4klight")>>, <<Lit("4k")>>, <<Lit("480p")>>, <<Lit("uhd")>>, <<Lit("hdlight")>>,
        <<Lit("fhd")>>, <<Lit("mhd")>>, <<Lit("hd")>>>>), Mark, WordBoundary>>,
      <<WordBoundary, Mark, Alt(<<<<Lit("web")>>, <<Lit("webrip")>>, <<Lit("web-dl")>>,
        <<Lit("bdrip")>>, <<Lit("bluray")>>>>), Mark, WordBoundary>>,
      <<WordBoundary, Mark, Alt(<<<<Lit("x264")>>, <<Lit("x265")>>, <<Lit("h264")>>,
        <<Lit("h265")>>, <<Lit("hevc")>>>>), Mark, WordBoundary>>,
      <<WordBoundary, Mark, Alt(<<<<Lit("aac")>>, <<Lit("ac3")>>, <<Lit("ddp")>>,
        <<Lit("dts")>>, <<Lit("mp3")>>, <<Lit("flac")>>>>), Mark, WordBoundary>>,
      <<WordBoundary, Mark, Alt(<<<<Lit("5.1")>>, <<Lit("7.1")>>, <<Lit("2.0")>>,
        <<Lit("atmos")>>, <<Lit("truehd")>>>>), Mark, WordBoundary>>,
      <<WordBoundary, Mark, Alt(<<<<Lit("hdr10")>>, <<Lit("hdr")>>, <<Lit("dv")>>,
        <<Lit("dolby"), Chr(SpaceChars, 0, NoneI, TRUE), Lit("vision")>>>>), Mark,
        WordBoundary>>,
      <<WordBoundary, Mark, Lit("10bit"), Mark, WordBoundary>>
    >>

\* tvshow_patterns (filename_analyzer.py:418-426)
tvshow_patterns ==
    <<
      <<WordBoundary, Lit("s"), Chr(Digits, 1, 2, TRUE), Lit("e"), Chr(Digits, 1, 2, TRUE),
        WordBoundary>>,
      <<WordBoundary, Lit("s"), Chr(Digits, 1, 2, TRUE), WordBoundary>>,
      <<WordBoundary, Lit("e"), Chr(Digits, 1, 2, TRUE), WordBoundary>>,
      <<WordBoundary, Lit("e"), Chr(Digits, 1, 2, TRUE), Lit("-"), Chr(Digits, 1, 2, TRUE),
        WordBoundary>>,
      <<WordBoundary, Lit("s"), Chr(Digits, 1, 3, TRUE), Lit("-"), Chr(Digits, 1, 3, TRUE),
        WordBoundary>>,
      <<WordBoundary, Chr(Digits, 1, 3, TRUE), Lit("-"), Chr(Digits, 1, 3, TRUE),
        WordBoundary>>,
      <<Chr({"s"}, 1, 1, TRUE), Lit("aison"), Chr(SpaceChars, 0, NoneI, TRUE), Chr(Digits, 1,
        2, TRUE)>>
    >>

\* r'[._\-\+]' (filename_analyzer.py:432)
separators ==
    <<Chr({".", "_", "-", "+"}, 1, 1, TRUE)>>

\* r'\s+' (filename_analyzer.py:433)
whitespace_run ==
    <<Chr(SpaceChars, 1, NoneI, TRUE)>>

\* ------------------------------------------------------------------------
\* FileAnalyzer (src/qbit2track/media/file_analyzer.py): what a probe of the file gives.
\* An Optional[str] is None or Some(characters).
\* ------------------------------------------------------------------------
TruthyStr(v) == v # None /\ v[1] # << >>

\* codec_mapping (file_analyzer.py:82-96)
codec_mapping ==
    <<
      [codec |-> Cs("h264"), name |-> Cs("H264")],
      [codec |-> Cs("hevc"), name |-> Cs("x265")],
      [codec |-> Cs("h265"), name |-> Cs("x265")],
      [codec |-> Cs("avc"), name |-> Cs("H264")],
      [codec |-> Cs("aac"), name |-> Cs("AAC")],
      [codec |-> Cs("ac3"), name |-> Cs("AC3")],
      [codec |-> Cs("eac3"), name |-> Cs("DDP")],
      [codec |-> Cs("dts"), name |-> Cs("DTS")],
      [codec |-> Cs("truehd"), name |-> Cs("TrueHD")],
      [codec |-> Cs("flac"), name |-> Cs("FLAC")],
      [codec |-> Cs("opus"), name |-> Cs("Opus")],
      [codec |-> Cs("vorbis"), name |-> Cs("Vorbis")],
      [codec |-> Cs("mp3"), name |-> Cs("MP3")]
    >>

\* _clean_codec_name (file_analyzer.py:80-99)
CleanCodecName(codec_name) ==
    IF \E n \in DOMAIN codec_mapping : codec_mapping[n].codec = Lower(codec_name)
    THEN codec_mapping[CHOOSE n \in DOMAIN codec_mapping :
                           codec_mapping[n].codec = Lower(codec_name)].name
    ELSE Upper(codec_name)

\* the info dict before any stream is read (file_analyzer.py:37-45), duration and
\* bitrate left out; it also stands for the empty dict of a failed probe, whose
\* .get() of every key gives the same values
EmptyInfo ==
    [video_codec |-> None, audio_codec |-> None, languages |-> {}, subtitles |-> {},
     resolution |-> None]

\* one round of the loop over the streams (file_analyzer.py:54-76)
StreamInfo(info, stream) ==
    CASE stream.codec_type = "video" ->
             [info EXCEPT !.video_codec = Some(CleanCodecName(stream.codec_name)),
                          !.resolution = IF Truthy(stream.width) /\ Truthy(stream.height)
                                         THEN Some(NatStr(stream.height) \o Cs("p"))
                                         ELSE @]
      [] stream.codec_type = "audio" ->
             [info EXCEPT !.audio_codec = Some(CleanCodecName(stream.codec_name)),
                          !.languages = IF TruthyStr(stream.language)
                                        THEN @ \cup {Lower(stream.language[1])}
                                        ELSE @]
      [] stream.codec_type = "subtitle" ->
             [info EXCEPT !.subtitles = IF TruthyStr(stream.language)
                                        THEN @ \cup {Lower(stream.language[1])}
                                        ELSE @]
      [] OTHER -> info

RECURSIVE StreamsFold(_, _, _)
StreamsFold(info, streams, n) ==
    IF n > Len(streams) THEN info
    ELSE StreamsFold(StreamInfo(info, streams[n]), streams, n + 1)

\* _extract_streams_info (file_analyzer.py:35-78)
ExtractStreamsInfo(streams) == StreamsFold(EmptyInfo, streams, 1)

\* an analyze_file whose failed probe leaves a codec behind
AnalyzeFileHalfDone(probe) ==
    IF probe # None THEN ExtractStreamsInfo(probe[1])
    ELSE [EmptyInfo EXCEPT !.video_codec = Some(Cs("H264"))]

\* analyze_file (file_analyzer.py:23-33): the streams of ffmpeg.probe's answer, or the
\* empty dict when it raises
AnalyzeFile(probe) == IF probe # None THEN ExtractStreamsInfo(probe[1]) ELSE EmptyInfo

\* ------------------------------------------------------------------------
\* FilenameAnalyzer (src/qbit2track/media/filename_analyzer.py)
\* ------------------------------------------------------------------------
\* Path(filename).stem, for a name without a directory part
Stem(filename) ==
    IF \E k \in 2..(Len(filename) - 1) : filename[k] = "."
    THEN Slice(filename, 1,
               (CHOOSE k \in 2..(Len(filename) - 1) :
                   filename[k] = "." /\ \A j \in (k + 1)..Len(filename) : filename[j] # ".") - 1)
    ELSE filename

TvTypes == {"tvshow", "anime"}

\* _determine_type (filename_analyzer.py:266-285)
DetermineType(filename, category) ==
    IF IsSubstring(Cs("tv"), Lower(category)) \/ IsSubstring(Cs("series"), Lower(category))
    THEN "tvshow"
    ELSE IF IsSubstring(Cs("anime"), Lower(category))
            \/ IsSubstring(Cs("manga"), Lower(category))
    THEN "anime"
    ELSE IF IsSubstring(Cs("movie"), Lower(category))
            \/ IsSubstring(Cs("film"), Lower(category))
    THEN "movie"
    ELSE IF \E pattern \in {Cs("s0"), Cs("season"), Cs("episode")} :
                IsSubstring(pattern, Lower(filename))
    THEN "tvshow"
    ELSE IF \E pattern \in {Cs("anime"), Cs("manga")} : IsSubstring(pattern, Lower(filename))
    THEN "anime"
    ELSE "movie"

\* match.group(1).upper().rstrip() of a found pattern (filename_analyzer.py:142-203)
FieldOf(m, filename) == IF m.ok THEN Some(RStrip(Upper(Group(filename, m, 1)))) ELSE None

\* the loop over the patterns of one technical field, left at the first match
TechField(patterns, filename) == FieldOf(FirstMatch(patterns, filename), filename)

\* filename_analyzer.py:170-177
VersionOf(version) == IF TruthyStr(version) THEN version ELSE Some(Cs("Original"))

\* filename_analyzer.py:194-196
YearOf(year_match, filename) ==
    IF year_match.ok THEN IntOf(Whole(filename, year_match)) ELSE NoneI

\* _extract_season_episode (filename_analyzer.py:287-317), the three searches given
SeasonEpisodeOf(filename, episode_match, range_match, season_match) ==
    IF episode_match.ok
    THEN [season |-> IntOf(Group(filename, episode_match, 1)),
          episode |-> IntOf(Group(filename, episode_match, 2))]
    ELSE IF range_match.ok
    THEN [season |-> 1, episode |-> IntOf(Group(filename, range_match, 2))]
    ELSE IF season_match.ok
    THEN [season |-> IntOf(Group(filename, season_match, 1)), episode |-> NoneI]
    ELSE [season |-> NoneI, episode |-> NoneI]

ExtractSeasonEpisode(filename) ==
    SeasonEpisodeOf(filename, FirstMatch(episode_patterns, filename),
                    ReSearch(episode_range_pattern, filename),
                    FirstMatch(full_season_patterns, filename))

\* language in languages, of a list
InList(x, list) == \E n \in DOMAIN list : list[n] = x

\* the loop over LANGUAGE_PATTERNS (filename_analyzer.py:324-328), from its n-th entry on
LanguagesFold(filename, languages, n) ==
    Fold(LAMBDA k, found :
             IF FirstMatch(LANGUAGE_PATTERNS[k].patterns, filename).ok
                /\ ~InList(LANGUAGE_PATTERNS[k].name, found)
             THEN Append(found, LANGUAGE_PATTERNS[k].name)
             ELSE found,
         languages, n, Len(LANGUAGE_PATTERNS))

\* the loop over LANGUAGES (filename_analyzer.py:331-336), from its n-th entry on
LegacyFold(filename, languages, n) ==
    Fold(LAMBDA k, found :
             IF ~LANGUAGES[k].multi
                /\ ReSearch(LANGUAGES[k].pattern, filename).ok
                /\ ~InList(LANGUAGES[k].lang, found)
             THEN Append(found, LANGUAGES[k].lang)
             ELSE found,
         languages, n, Len(LANGUAGES))

\* _extract_languages (filename_analyzer.py:319-341)
ExtractLanguages(filename) ==
    [languages |-> Eager(LAMBDA languages : LegacyFold(filename, languages, 1),
                         LanguagesFold(filename, << >>, 1)),
     is_multi |-> ReSearch(multi_pattern, filename).ok]

\* the loop over SUBTITLE_LANGUAGES, from its n-th entry on
SubtitlesFold(filename, subtitles, n) ==
    Fold(LAMBDA k, found :
             IF IsSubstring(Lower(SUBTITLE_LANGUAGES[k].sub_pattern), filename)
             THEN Append(found, SUBTITLE_LANGUAGES[k].lang)
             ELSE found,
         subtitles, n, Len(SUBTITLE_LANGUAGES))

\* _extract_subtitles (filename_analyzer.py:439-447)
ExtractSubtitles(filename) == SubtitlesFold(filename, << >>, 1)

\* the title _clean_title starts from (filename_analyzer.py:355-359)
TitleCandidate(filename) ==
    IF Len(Stem(filename)) + 4 < Len(filename) THEN filename ELSE Stem(filename)

\* for pattern in patterns: title = re.sub(pattern, '', title), from the n-th pattern on
RemoveAll(patterns, title, n) ==
    Fold(LAMBDA k, t : ReSub(patterns[k], << >>, t), title, n, Len(patterns))

\* if match: title = title[:match.start()]
CutAt(title, match) ==
    IF match.ok THEN Slice(title, 1, match.start - 1) ELSE title

\* for pattern in patterns: match = re.search(pattern, title); if match: ..., from the
\* n-th pattern on
TruncateAll(patterns, title, n) ==
    Fold(LAMBDA k, t : CutAt(t, ReSearch(patterns[k], t)), title, n, Len(patterns))

RECURSIVE DetectedPatterns(_, _)
\* the patterns of the detected languages (filename_analyzer.py:400-403)
DetectedPatterns(detected_languages_lower, n) ==
    IF n > Len(LANGUAGE_PATTERNS) THEN << >>
    ELSE (IF InList(Lower(LANGUAGE_PATTERNS[n].name), detected_languages_lower)
          THEN LANGUAGE_PATTERNS[n].patterns ELSE << >>)
         \o DetectedPatterns(detected_languages_lower, n + 1)

RECURSIVE DetectedLegacy(_, _)
\* the legacy patterns of the detected languages (filename_analyzer.py:406-410)
DetectedLegacy(detected_languages_lower, n) ==
    IF n > Len(LANGUAGES) THEN << >>
    ELSE (IF ~LANGUAGES[n].multi /\ InList(Lower(LANGUAGES[n].lang), detected_languages_lower)
          THEN <<LANGUAGES[n].pattern>> ELSE << >>)
         \o DetectedLegacy(detected_languages_lower, n + 1)

\* all_patterns (filename_analyzer.py:397-410)
AllPatterns(languages) ==
    AUDIO_CODEC_PATTERNS \o FILE_SOURCE_PATTERNS \o HDR_PATTERNS \o PLATFORM_PATTERNS
    \o SPECIAL_VERSION_PATTERNS \o TEAM_PATTERNS \o TRASH_PATTERNS
    \o DetectedPatterns([n \in DOMAIN languages |-> Lower(languages[n])], 1)
    \o DetectedLegacy([n \in DOMAIN languages |-> Lower(languages[n])], 1)

\* filename_analyzer.py:361-377: the year brackets, the bracketed parts, the split on the year
WithoutBrackets(title, year) ==
    RemoveAll(patterns_to_remove,
              IF Truthy(year) THEN ReSub(year_brackets, NatStr(year), title) ELSE title, 1)

SplitOnYear(title, year) == IF Truthy(year) THEN BeforeFirst(title, NatStr(year)) ELSE title

\* filename_analyzer.py:379-415: the title cut at every pattern found
Truncated(title, languages) ==
    Eager(LAMBDA t : TruncateAll(AllPatterns(languages), t, 1),
          TruncateAll(common_patterns, title, 1))

\* filename_analyzer.py:417-429
WithoutSeason(title, type) ==
    IF type \in TvTypes THEN RemoveAll(tvshow_patterns, title, 1) ELSE title

\* filename_analyzer.py:431-437
Tidy(title) ==
    TitleCase(Strip(Eager(LAMBDA t : ReSub(whitespace_run, Cs(" "), t),
                          ReSub(separators, Cs(" "), title))))

\* _clean_title (filename_analyzer.py:353-437)
CleanTitle(filename, media) ==
    Eager(Tidy,
          Eager(LAMBDA title : WithoutSeason(title, media.type),
                Eager(LAMBDA title : Truncated(title, media.languages),
                      Eager(LAMBDA title : SplitOnYear(title, media.year),
                            WithoutBrackets(TitleCandidate(filename), media.year)))))

\* analyze_filename up to the title (filename_analyzer.py:134-220), the type, what
\* _extract_season_episode returned and what _extract_languages returned given
Extracted(filename, type, found, langs) ==
    [title |-> Stem(filename),
     year |-> YearOf(ReSearch(year_pattern, filename), filename),
     type |-> type,
     source |-> TechField(FILE_SOURCE_PATTERNS, filename),
     version |-> VersionOf(TechField(SPECIAL_VERSION_PATTERNS, filename)),
     team |-> TechField(TEAM_PATTERNS, filename),
     resolution |-> TechField(RESOLUTION_PATTERNS, filename),
     video_codec |-> TechField(VIDEO_CODEC_PATTERNS, filename),
     audio_codec |-> TechField(AUDIO_CODEC_PATTERNS, filename),
     languages |-> langs.languages,
     subtitles |-> ExtractSubtitles(filename),
     season |-> IF type \in TvTypes /\ Truthy(found.season) THEN found.season ELSE NoneI,
     episode |-> IF type \in TvTypes /\ Truthy(found.season) /\ Truthy(found.episode)
                 THEN found.episode ELSE NoneI,
     hdr |-> TechField(HDR_PATTERNS, filename),
     platform |-> TechField(PLATFORM_PATTERNS, filename),
     is_multi_language |-> langs.is_multi,
     full_season |-> type \in TvTypes /\ Truthy(found.season) /\ ~Truthy(found.episode)]

\* filename_analyzer.py:223
WithTitle(filename, media) ==
    Eager(LAMBDA m : [m EXCEPT !.title = CleanTitle(filename, m)], media)

\* analyze_filename without a file to probe (filename_analyzer.py:132-229)
AnalyzeName(filename, category) ==
    Eager(LAMBDA lowered :
              Eager(LAMBDA langs :
                        WithTitle(lowered,
                                  Extracted(lowered, DetermineType(lowered, category),
                                            ExtractSeasonEpisode(lowered), langs)),
                    ExtractLanguages(lowered)),
          Lower(filename))

\* the orders list(set) may give
Orders(set) ==
    {q \in [1..Cardinality(set) -> set] : \A i, j \in DOMAIN q : i # j => q[i] # q[j]}

\* a merge that takes the probed codecs and resolution even when they are absent
EnhanceAlways(media, file_info, languages, subtitles) ==
    [media EXCEPT
        !.video_codec = file_info.video_codec,
        !.audio_codec = file_info.audio_codec,
        !.resolution = file_info.resolution,
        !.languages = languages,
        !.subtitles = subtitles]

\* _enhance_with_file_analysis (filename_analyzer.py:231-264), the orders of the two
\* merged lists given
Enhance(media, file_info, languages, subtitles) ==
    [media EXCEPT
        !.video_codec = IF TruthyStr(file_info.video_codec) THEN file_info.video_codec ELSE @,
        !.audio_codec = IF TruthyStr(file_info.audio_codec) THEN file_info.audio_codec ELSE @,
        !.resolution = IF TruthyStr(file_info.resolution) THEN file_info.resolution ELSE @,
        !.languages = languages,
        !.subtitles = subtitles]

\* set(list)
Elements(list) == {list[n] : n \in DOMAIN list}

\* ------------------------------------------------------------------------
\* Batch runs (extractor.py, uploader.py, trackers/lacale.py)
\* ------------------------------------------------------------------------
\* the longest batch
MaxItems == 3

BatchKinds == {"extract_all", "upload_all", "mass_upload_from_directory"}

\* how the processing of one item ends: it returns (truthy, or with success set),
\* it returns False (_upload_single_torrent) or a result without success
\* (upload_from_metadata), or it raises an Exception; _extract_single_torrent's
\* return value is not looked at
Outcomes(kind) ==
    IF kind = "extract_all" THEN {"done", "raised"} ELSE {"done", "refused", "raised"}

\* the batches of a kind, an item being its outcome
ItemLists(kind) == UNION { [1..n -> Outcomes(kind)] : n \in 0..MaxItems }

\* results = {'total': len(...), 'success': 0, 'failed': 0}
NewResults(items) == [total |-> Len(items), success |-> 0, failed |-> 0]

\* the body of the try statement and its except clause: one count per item
Counted(results, outcome) ==
    IF outcome = "done"
    THEN [results EXCEPT !.success = @ + 1]
    ELSE [results EXCEPT !.failed = @ + 1]

\* an exception that stops the loop at the item that raised
NextItemAborting(next, total, outcome) ==
    IF outcome = "raised" THEN total + 1 ELSE next + 1

\* the for loop: except Exception ends the iteration, not the loop
NextItem(next, total, outcome) ==
    next + 1

IdleBatch ==
    [pc |-> "idle", kind |-> "", exists |-> TRUE, items |-> << >>, next |-> 1,
     results |-> NewResults(<< >>), processed |-> << >>]

\* ------------------------------------------------------------------------
\* RateLimiter (uploader.py:31-62)
\* ------------------------------------------------------------------------
\* the two windows, in seconds
MinuteWindow == 60
BurstWindow == 5

\* the calls of wait_if_needed, the last time a call is made at
MaxRequests == 4
MaxClock == 10

\* the limits a limiter is constructed with
Limits ==
    { [requests_per_minute |-> m, burst_size |-> b] : m \in 2..3, b \in 1..2 }

\* the time that may pass between two calls
Delays == {1, BurstWindow}

\* [req_time for req_time in self.requests if now - req_time < 60]
Pruned(requests, t) == SelectSeq(requests, LAMBDA req_time : t - req_time < MinuteWindow)

\* [req_time for req_time in self.requests if now - req_time < 5]
Recent(requests, t) == SelectSeq(requests, LAMBDA req_time : t - req_time < BurstWindow)

\* the sleep of the per-minute check (uploader.py:47-52), 0 when it does not sleep
MinuteSleep(requests, t, requests_per_minute) ==
    IF Len(requests) >= requests_per_minute /\ MinuteWindow - (t - requests[1]) > 0
    THEN MinuteWindow - (t - requests[1])
    ELSE 0

\* the sleep of the burst check (uploader.py:54-60), 0 when it does not sleep
BurstSleep(requests, t, burst_size) ==
    IF Len(Recent(requests, t)) >= burst_size /\ BurstWindow - (t - Recent(requests, t)[1]) > 0
    THEN BurstWindow - (t - Recent(requests, t)[1])
    ELSE 0

\* RateLimiter.__init__ (uploader.py:34-38), before it
IdleLimiter ==
    [requests_per_minute |-> 0, burst_size |-> 0, requests |-> << >>, proceeded |-> << >>]

\* ------------------------------------------------------------------------
\* State
\* ------------------------------------------------------------------------
VARIABLES
    cache,        \* self.cache: cache key -> [data, timestamp]
    now,          \* time.time()
    pc,           \* where the running match_media call stands ("idle": none runs)
    calls,        \* match_media calls made so far
    media_info,   \* the argument of the running (or last) call
    retry,        \* _match_with_retry: current_title, current_words, best_result, best_score
    loop,         \* _match_movie/_match_tvshow: search_results, idx, best_match, best_score,
                  \*   episode_data
    ret,          \* what the last call returned: [result, hit]
    entry,        \* history: the clock at the call's cache lookup, what the last call
                  \*   that searched for the same request found, whether it found nothing
    seen,         \* history: the attempts of the call, one record each
    lookups,      \* history: the kinds of catalog calls the call has issued
    trace,        \* history: the candidate loop of the running attempt, or of the call's
                  \*   last one: the search results, the ids looked up, the scores given
    found,        \* history: request -> the result the last search for it stored, and when
    nomatch,      \* history: the requests whose last call ended with no match
    disk,         \* the cache file: [state, data], state "none", "corrupt" or "ok"
    alive,        \* "up" while the matcher lives, then how __del__'s save ended
    boot,         \* history: the cache file found at construction and the cache loaded
    analysis,     \* the call of analyze_filename: its arguments, its position, what
                  \* _extract_season_episode and the probe returned, its MediaInfo
    batch,        \* a batch run: its items' outcomes, the next item, the counts, the
                  \*   items processed
    searches,     \* history, kept under SpecSearch: the searches the running attempt (or the
                  \*   last one) has issued, None where none is kept
    other,        \* a second matcher on the same cache file: its cache, alive as above
                  \*   ("none" before it is constructed), the file it found (history)
    cleared,      \* history, kept once clear_cache has run: the requests stored since
    limiter       \* the RateLimiter: its limits, self.requests, and (history) the times
                  \*   at which wait_if_needed returned

vars == <<cache, now, pc, calls, media_info, retry, loop, ret, entry, seen, lookups, trace,
          found, nomatch, disk, alive, boot, analysis, batch, searches, other, cleared, limiter>>

Ids == {c.id : c \in Pool}

\* what a search may return: up to MaxResults distinct candidates, in any order
Responses ==
    UNION { { s \in [1..n -> Ids] : \A i, j \in 1..n : i # j => s[i] # s[j] } :
            n \in 0..MaxResults }

\* no call of analyze_filename
IdleAnalysis ==
    [pc |-> "idle", filename |-> << >>, category |-> << >>, found |-> None, probed |-> FALSE,
     raised |-> FALSE, file_info |-> EmptyInfo, info |-> None]

IdleRetry ==
    [current_title |-> << >>, current_words |-> << >>, best_result |-> None, best_score |-> R(0)]

IdleLoop ==
    [search_results |-> << >>, idx |-> 0, best_match |-> None, best_score |-> R(0),
     episode_data |-> None]

IdleTrace == [results |-> << >>, scored |-> << >>, details |-> << >>, subraised |-> FALSE]

Init ==
    /\ cache = EmptyCache
    /\ now = 0
    /\ pc = "idle"
    /\ calls = 0
    /\ media_info = None
    /\ retry = IdleRetry
    /\ loop = IdleLoop
    /\ ret = None
    /\ entry = None
    /\ seen = << >>
    /\ lookups = {}
    /\ trace = IdleTrace
    /\ found = [r \in Requests |-> None]
    /\ nomatch = {}
    /\ disk = NoFile
    /\ alive = "up"
    /\ boot = [file |-> NoFile, cache |-> EmptyCache]
    /\ analysis = IdleAnalysis
    /\ batch = IdleBatch
    /\ searches = None
    /\ other = NoOther
    /\ cleared = None
    /\ limiter = IdleLimiter

IsMovie(mi) == mi.type = "movie"
IsTv(mi) == mi.type \in {"tvshow", "anime"}

\* a variant of the tail of match_media that caches the absence of a result too
FinishCachesAll(mi, result) ==
    /\ cache' = SetCache(cache, GetCacheKey(mi),
                         IF result # None THEN result[1] ELSE MovieMatch([id |-> 0]), now)
    /\ ret' = Some([result |-> result, hit |-> FALSE])
    /\ found' = IF result # None
                THEN [found EXCEPT ![mi] = Some([data |-> result[1], at |-> now])]
                ELSE found
    /\ nomatch' = IF result # None THEN nomatch \ {mi} ELSE nomatch \cup {mi}
    /\ pc' = "idle"
    /\ retry' = IdleRetry

\* ------------------------------------------------------------------------
\* match_media, its tail (tmdb_matcher.py:53-63): the result is cached if there is one
\* ------------------------------------------------------------------------
Finish(mi, result) ==
    /\ cache' = IF result # None THEN SetCache(cache, GetCacheKey(mi), result[1], now) ELSE cache
    /\ ret' = Some([result |-> result, hit |-> FALSE])
    /\ found' = IF result # None
                THEN [found EXCEPT ![mi] = Some([data |-> result[1], at |-> now])]
                ELSE found
    /\ nomatch' = IF result # None THEN nomatch \ {mi} ELSE nomatch \cup {mi}
    /\ pc' = "idle"
    /\ retry' = IdleRetry

\* _match_with_retry after one attempt (tmdb_matcher.py:88-118): return, or shorten and go on
AfterAttempt(mi, rt, result, score) ==
    LET original_title == mi.title
        min_word_count == MinWordCount(Len(Split(original_title)))
        keep == KeepsBest(result, score, rt.best_score)
        best_result == IF keep THEN result ELSE rt.best_result
        best_score == IF keep THEN score ELSE rt.best_score
        shorter == SubSeq(rt.current_words, 1, Len(rt.current_words) - 1)
    IN  IF ReturnsNow(result, score, rt.current_title, original_title)
        THEN [done |-> TRUE, result |-> result, retry |-> rt]
        ELSE IF Len(rt.current_words) <= min_word_count \/ Len(shorter) < min_word_count
        THEN [done |-> TRUE, result |-> best_result, retry |-> rt]
        ELSE [done |-> FALSE, result |-> None,
              retry |-> [current_title |-> Join(shorter), current_words |-> shorter,
                         best_result |-> best_result, best_score |-> best_score]]

\* the attempt returned (result, score) to _match_with_retry
EndAttempt(result, score, raised, ncands, tr) ==
    LET mi == media_info[1]
        a == AfterAttempt(mi, retry, result, score)
    IN  /\ seen' = Append(seen, [title |-> retry.current_title,
                                 words |-> Len(retry.current_words),
                                 result |-> result, score |-> score,
                                 raised |-> raised, subraised |-> tr.subraised,
                                 nocands |-> ncands = 0])
        /\ loop' = IdleLoop
        /\ IF a.done
           THEN /\ Finish(mi, a.result)
                /\ trace' = tr
           ELSE /\ retry' = a.retry
                /\ trace' = IdleTrace
                /\ pc' = "search"
                /\ UNCHANGED <<cache, ret, found, nomatch>>

\* match_media up to the first search (tmdb_matcher.py:40-51, 65-86)
MatchMedia(mi) ==
    /\ pc = "idle"
    /\ calls' = calls + 1
    /\ media_info' = Some(mi)
    /\ entry' = Some([at |-> now, prior |-> found[mi], missed |-> mi \in nomatch])
    /\ seen' = << >>
    /\ lookups' = {}
    /\ trace' = IdleTrace
    /\ UNCHANGED <<now, loop, disk, alive, boot, analysis, batch, searches, other, cleared, limiter>>
    /\ LET g == GetFromCache(cache, GetCacheKey(mi), now)
           current_words == Split(mi.title)
       IN  IF g.data # None
           THEN /\ ret' = Some([result |-> g.data, hit |-> TRUE])
                /\ cache' = g.cache
                /\ UNCHANGED <<pc, retry, found, nomatch>>
           ELSE IF Len(current_words) >= MinWordCount(Len(current_words))
                   /\ (IsMovie(mi) \/ IsTv(mi))
           THEN /\ pc' = "search"
                /\ retry' = [current_title |-> mi.title, current_words |-> current_words,
                             best_result |-> None, best_score |-> R(0)]
                /\ cache' = g.cache
                /\ UNCHANGED <<ret, found, nomatch>>
           ELSE /\ ret' = Some([result |-> None, hit |-> FALSE])
                /\ cache' = g.cache
                /\ nomatch' = nomatch \cup {mi}
                /\ UNCHANGED <<pc, retry, found>>

\* ------------------------------------------------------------------------
\* _match_movie / _match_tvshow, one action per catalog call
\* ------------------------------------------------------------------------
\* the candidate under the loop
Current == CandById(loop.search_results[loop.idx])

\* a variant of the handler that returns the best match scored before the exception
CaughtKeepsBest == [result |-> loop.best_match, score |-> loop.best_score]

\* except Exception: ... return None, 0 (tmdb_matcher.py:211-214, 329-332)
Caught == [result |-> None, score |-> R(0)]

\* the end of one pass of the candidate loop: leave the loop or go to the next candidate
\* (tmdb_matcher.py:201-209, 319-327)
Scored(st, n, tr, tr2) ==
    IF st.raised
    THEN EndAttempt(Caught.result, Caught.score, TRUE, n, tr)
    ELSE IF st.stop \/ loop.idx = n
    THEN EndAttempt(st.best_match, st.best_score, FALSE, n, tr2)
    ELSE /\ loop' = [loop EXCEPT !.idx = @ + 1, !.best_match = st.best_match,
                                 !.best_score = st.best_score, !.episode_data = None]
         /\ pc' = "details"
         /\ trace' = tr2
         /\ UNCHANGED <<cache, retry, ret, seen, found, nomatch>>

\* the history of the loop with one more candidate scored
WithScored(tr, id, score, current_match, subfailed) ==
    [tr EXCEPT !.scored = Append(@, [id |-> id, score |-> score, match |-> current_match,
                                     subfailed |-> subfailed])]

\* one pass of the candidate loop with its score st
ScoreStep(st, current_match, tr, subfailed) ==
    Scored(st, Len(loop.search_results), tr,
           WithScored(tr, Current.id, st.score, current_match, subfailed))

\* the rest of one pass of the candidate loop, once the candidate's lookups are done
\* (tmdb_matcher.py:145-207, 261-325)
ScoreCandidate(current_match, tr, subfailed) ==
    ScoreStep(CandStep(CandScore(IsMovie(media_info[1]), retry.current_title,
                                 media_info[1].year, Current),
                       current_match, loop.best_match, loop.best_score),
              current_match, tr, subfailed)

\* the first search of an attempt: the year is passed if it is truthy
\* (tmdb_matcher.py:124-132, 220-228)
FirstSearch(title, year) ==
    [title |-> title, year |-> IF year # NoneI /\ year # 0 THEN year ELSE NoneI]

\* a second search that passes the year again
BroaderSearchWithYear(title, year) ==
    [title |-> title, year |-> year]

\* the broader search: the title alone (tmdb_matcher.py:134-138, 230-234)
BroaderSearch(title, year) ==
    [title |-> title, year |-> NoneI]

\* a search issued: its arguments, whether it answered, the results it gave
Issued(query, ok, resp) ==
    [title |-> query.title, year |-> query.year, ok |-> ok, results |-> resp]

\* the history of searches with one more, where a history is kept
Kept(history, kept, search) ==
    IF kept THEN Some(Append(history[1], search)) ELSE None

\* the candidate loop over the results of the search that was kept
StartLoop(resp) ==
    IF resp = << >>
    THEN EndAttempt(None, R(0), FALSE, 0, IdleTrace)
    ELSE /\ loop' = [IdleLoop EXCEPT !.search_results = resp, !.idx = 1]
         /\ pc' = "details"
         /\ trace' = [IdleTrace EXCEPT !.results = resp]
         /\ UNCHANGED <<cache, retry, ret, seen, found, nomatch>>

\* self.search.movies / tv_shows(title, year) (tmdb_matcher.py:124-138, 220-234)
Search(ok, resp) ==
    /\ pc = "search"
    /\ ok \/ resp = << >>
    /\ lookups' = lookups \cup {"search"}
    /\ searches' = Kept(Some(<< >>), searches # None,
                        Issued(FirstSearch(retry.current_title, media_info[1].year), ok, resp))
    /\ UNCHANGED <<now, calls, media_info, entry, disk, alive, boot, analysis, batch, other,
                   cleared, limiter>>
    /\ IF ~ok
       THEN EndAttempt(Caught.result, Caught.score, TRUE, 0, IdleTrace)
       ELSE IF resp = << >>
       THEN /\ pc' = "broader"
            /\ trace' = IdleTrace
            /\ UNCHANGED <<cache, retry, loop, ret, seen, found, nomatch>>
       ELSE StartLoop(resp)

\* the broader search without the year (tmdb_matcher.py:134-138, 230-234)
Broader(ok, resp) ==
    /\ pc = "broader"
    /\ ok \/ resp = << >>
    /\ lookups' = lookups \cup {"search"}
    /\ searches' = Kept(searches, searches # None,
                        Issued(BroaderSearch(retry.current_title, media_info[1].year), ok, resp))
    /\ UNCHANGED <<now, calls, media_info, entry, disk, alive, boot, analysis, batch, other,
                   cleared, limiter>>
    /\ IF ~ok
       THEN EndAttempt(Caught.result, Caught.score, TRUE, 0, IdleTrace)
       ELSE StartLoop(resp)

\* self.movie.details / self.tv.details(result.id) (tmdb_matcher.py:144, 241)
Details(ok) ==
    /\ pc = "details"
    /\ lookups' = lookups \cup {"details"}
    /\ UNCHANGED <<now, calls, media_info, entry, disk, alive, boot, analysis, batch, searches,
                   other, cleared, limiter>>
    /\ LET mi == media_info[1]
           tr == [trace EXCEPT !.details = Append(@, Current.id)]
       IN  IF ~ok
           THEN EndAttempt(Caught.result, Caught.score, TRUE, Len(loop.search_results), tr)
           ELSE IF IsMovie(mi)
           THEN ScoreCandidate(MovieMatch(Current), tr, FALSE)
           ELSE IF Truthy(mi.season)
           THEN /\ pc' = IF Truthy(mi.episode) THEN "episode" ELSE "season"
                /\ trace' = tr
                /\ UNCHANGED <<cache, retry, loop, ret, seen, found, nomatch>>
           ELSE ScoreCandidate(TvMatch(Current, None, None, mi.season, mi.episode), tr, FALSE)

\* self.episode.details(result.id, season, episode) (tmdb_matcher.py:247-259)
EpisodeDetails(ok) ==
    /\ pc = "episode"
    /\ lookups' = lookups \cup {"episode"}
    /\ UNCHANGED <<now, calls, media_info, entry, disk, alive, boot, analysis, batch, searches,
                   other, cleared, limiter>>
    /\ LET mi == media_info[1]
       IN  IF ok
           THEN /\ loop' = [loop EXCEPT !.episode_data =
                                Some(<<Current.id, mi.season, mi.episode>>)]
                /\ pc' = "season"
                /\ UNCHANGED <<cache, retry, ret, seen, trace, found, nomatch>>
           ELSE ScoreCandidate(TvMatch(Current, None, None, mi.season, mi.episode),
                               [trace EXCEPT !.subraised = TRUE], TRUE)

\* self.season.details(result.id, season) (tmdb_matcher.py:255-259)
SeasonDetails(ok) ==
    /\ pc = "season"
    /\ lookups' = lookups \cup {"season"}
    /\ UNCHANGED <<now, calls, media_info, entry, disk, alive, boot, analysis, batch, searches,
                   other, cleared, limiter>>
    /\ LET mi == media_info[1]
       IN  IF ok
           THEN ScoreCandidate(TvMatch(Current, loop.episode_data,
                                       Some(<<Current.id, mi.season>>),
                                       mi.season, mi.episode), trace, FALSE)
           ELSE ScoreCandidate(TvMatch(Current, loop.episode_data, None,
                                       mi.season, mi.episode),
                               [trace EXCEPT !.subraised = TRUE], TRUE)

\* the clock advances between calls and while a search is awaited
Tick ==
    /\ pc \in {"idle", "search"}
    /\ now < MaxTime
    /\ now' = now + 1
    /\ UNCHANGED <<cache, pc, calls, media_info, retry, loop, ret, entry, seen, lookups, trace,
                   found, nomatch, disk, alive, boot, analysis, batch, searches, other,
                   cleared, limiter>>

Next ==
    \/ calls < MaxCalls /\ \E mi \in Requests : MatchMedia(mi)
    \/ \E ok \in BOOLEAN, resp \in Responses : Search(ok, resp)
    \/ \E ok \in BOOLEAN, resp \in Responses : Broader(ok, resp)
    \/ \E ok \in BOOLEAN : Details(ok)
    \/ \E ok \in BOOLEAN : EpisodeDetails(ok)
    \/ \E ok \in BOOLEAN : SeasonDetails(ok)

Spec == Init /\ [][Next]_vars

\* The cache over several calls and the clock: one-attempt movie requests, at most
\* one candidate per search
CacheRequests == {r \in Requests : r.type = "movie" /\ Len(Split(r.title)) = 1}

CacheResponses == {s \in Responses : Len(s) <= 1}

NextCache ==
    \/ calls < MaxCacheCalls /\ \E mi \in CacheRequests : MatchMedia(mi)
    \/ \E ok \in BOOLEAN, resp \in CacheResponses : Search(ok, resp)
    \/ \E ok \in BOOLEAN, resp \in CacheResponses : Broader(ok, resp)
    \/ \E ok \in BOOLEAN : Details(ok)
    \/ Tick

SpecCache == Init /\ [][NextCache]_vars

\* _set_cache and _get_from_cache called on their own (tmdb_matcher.py:367-383)
SetCacheOp(mi, data) ==
    /\ pc = "idle"
    /\ cache' = SetCache(cache, GetCacheKey(mi), data, now)
    /\ found' = [found EXCEPT ![mi] = Some([data |-> data, at |-> now])]
    /\ cleared' = IF cleared = None THEN None ELSE Some(cleared[1] \cup {mi})
    /\ UNCHANGED <<now, pc, calls, media_info, retry, loop, ret, entry, seen, lookups, trace,
                   nomatch, disk, alive, boot, analysis, batch, searches, other, limiter>>

GetFromCacheOp(mi) ==
    /\ pc = "idle"
    /\ LET g == GetFromCache(cache, GetCacheKey(mi), now)
       IN  /\ cache' = g.cache
           /\ ret' = Some([result |-> g.data, hit |-> g.data # None])
    /\ media_info' = Some(mi)
    /\ entry' = Some([at |-> now, prior |-> found[mi], missed |-> FALSE])
    /\ UNCHANGED <<now, pc, calls, retry, loop, seen, lookups, trace, found, nomatch,
                   disk, alive, boot, analysis, batch, searches, other, cleared, limiter>>

NextCacheOps ==
    \/ \E mi \in CacheRequests, c \in Pool : SetCacheOp(mi, MovieMatch(c))
    \/ \E mi \in CacheRequests : GetFromCacheOp(mi)
    \/ Tick

SpecCacheOps == Init /\ [][NextCacheOps]_vars

\* One call of match_media with the history of its searches
InitSearch ==
    /\ cache = EmptyCache
    /\ now = 0
    /\ pc = "idle"
    /\ calls = 0
    /\ media_info = None
    /\ retry = IdleRetry
    /\ loop = IdleLoop
    /\ ret = None
    /\ entry = None
    /\ seen = << >>
    /\ lookups = {}
    /\ trace = IdleTrace
    /\ found = [r \in Requests |-> None]
    /\ nomatch = {}
    /\ disk = NoFile
    /\ alive = "up"
    /\ boot = [file |-> NoFile, cache |-> EmptyCache]
    /\ analysis = IdleAnalysis
    /\ batch = IdleBatch
    /\ searches = Some(<< >>)
    /\ other = NoOther
    /\ cleared = None
    /\ limiter = IdleLimiter

NextSearch ==
    \/ calls = 0 /\ \E mi \in Requests : MatchMedia(mi)
    \/ \E ok \in BOOLEAN, resp \in Responses : Search(ok, resp)
    \/ \E ok \in BOOLEAN, resp \in Responses : Broader(ok, resp)
    \/ \E ok \in BOOLEAN : Details(ok)
    \/ \E ok \in BOOLEAN : EpisodeDetails(ok)
    \/ \E ok \in BOOLEAN : SeasonDetails(ok)

SpecSearch == InitSearch /\ [][NextSearch]_vars

\* The cache and its file over the life of one matcher (tmdb_matcher.py:23-38,
\* 339-383, 409-411): construction loads the file, stores and reads follow, __del__
\* saves. The requests are the episodes of one show.
PersistRequests ==
    { [title |-> <<"a", "b">>, year |-> NoneI, type |-> "tvshow", season |-> se, episode |-> ep] :
          se \in 1..5, ep \in 1..2 }

\* the requests read back
PersistReads == {r \in PersistRequests : r.season = 1}

\* what is stored for a request
PersistMatch(mi) == TvMatch(CandById(1), None, None, mi.season, mi.episode)

\* a cache file written by an earlier run at time 0, with one entry
OldFile ==
    CacheFile([k \in {GetCacheKey(r) : r \in {x \in PersistRequests : x.season = 1 /\ x.episode = 1}}
                 |-> [data |-> PersistMatch(CHOOSE r \in PersistRequests : GetCacheKey(r) = k),
                      timestamp |-> 0]])

\* the file found at construction and the time of construction
Boots == {<<NoFile, 0>>, <<CorruptFile, 0>>, <<OldFile, CacheExpiry>>, <<OldFile, CacheExpiry + 1>>}

\* __init__ (tmdb_matcher.py:23-38): self.cache = self._load_cache()
InitPersist ==
    \E b \in Boots :
        /\ disk = b[1]
        /\ now = b[2]
        /\ cache = LoadCache(b[1], b[2])
        /\ boot = [file |-> b[1], cache |-> LoadCache(b[1], b[2])]
        /\ analysis = IdleAnalysis
        /\ batch = IdleBatch
        /\ searches = None
        /\ other = NoOther
        /\ cleared = None
        /\ limiter = IdleLimiter
        /\ alive = "up"
        /\ pc = "idle"
        /\ calls = 0
        /\ media_info = None
        /\ retry = IdleRetry
        /\ loop = IdleLoop
        /\ ret = None
        /\ entry = None
        /\ seen = << >>
        /\ lookups = {}
        /\ trace = IdleTrace
        /\ found = [r \in PersistRequests |-> None]
        /\ nomatch = {}

\* __del__ (tmdb_matcher.py:409-411): self._save_cache()
Del(outcome) ==
    /\ alive = "up"
    /\ pc = "idle"
    /\ disk' = SaveCache(cache, disk, outcome)
    /\ alive' = outcome
    /\ UNCHANGED <<cache, now, pc, calls, media_info, retry, loop, ret, entry, seen, lookups,
                   trace, found, nomatch, boot, analysis, batch, searches, other, cleared,
                   limiter>>

NextPersist ==
    \/ alive = "up" /\ \E mi \in PersistRequests : SetCacheOp(mi, PersistMatch(mi))
    \/ alive = "up" /\ \E mi \in PersistReads : GetFromCacheOp(mi)
    \/ \E outcome \in SaveOutcomes : Del(outcome)

SpecPersist == InitPersist /\ [][NextPersist]_vars

\* ------------------------------------------------------------------------
\* The cache file under clear_cache and under a second matcher
\* (tmdb_matcher.py:23-38, 339-390, 409-411)
\* ------------------------------------------------------------------------
\* the requests stored: the episodes of one season
FileRequests == PersistReads

\* a clear_cache that leaves the entries in place
NotEmptied(c) == c

\* self.cache = {} (tmdb_matcher.py:387)
Emptied(c) == EmptyCache

\* if self.cache_file.exists(): self.cache_file.unlink() (tmdb_matcher.py:388-389)
Unlinked(d) == NoFile

\* clear_cache (tmdb_matcher.py:385-390); it returns nothing
ClearCache ==
    /\ alive = "up"
    /\ pc = "idle"
    /\ cache' = Emptied(cache)
    /\ disk' = Unlinked(disk)
    /\ cleared' = Some({})
    /\ ret' = None
    /\ UNCHANGED <<now, pc, calls, media_info, retry, loop, entry, seen, lookups, trace, found,
                   nomatch, alive, boot, analysis, batch, searches, other, limiter>>

\* the second matcher is constructed (tmdb_matcher.py:23-38): it loads the file
\* as it is then
OtherInit ==
    /\ other.alive = "none"
    /\ other' = [cache |-> LoadCache(disk, now), alive |-> "up", file |-> disk]
    /\ UNCHANGED <<cache, now, pc, calls, media_info, retry, loop, ret, entry, seen, lookups,
                   trace, found, nomatch, disk, alive, boot, analysis, batch, searches, cleared,
                   limiter>>

\* _set_cache of the second matcher (tmdb_matcher.py:378-383)
OtherSetCache(mi, data) ==
    /\ other.alive = "up"
    /\ other' = [other EXCEPT !.cache = SetCache(@, GetCacheKey(mi), data, now)]
    /\ UNCHANGED <<cache, now, pc, calls, media_info, retry, loop, ret, entry, seen, lookups,
                   trace, found, nomatch, disk, alive, boot, analysis, batch, searches, cleared,
                   limiter>>

\* __del__ of the second matcher (tmdb_matcher.py:409-411)
OtherDel(outcome) ==
    /\ other.alive = "up"
    /\ disk' = SaveCache(other.cache, disk, outcome)
    /\ other' = [other EXCEPT !.alive = outcome]
    /\ UNCHANGED <<cache, now, pc, calls, media_info, retry, loop, ret, entry, seen, lookups,
                   trace, found, nomatch, alive, boot, analysis, batch, searches, cleared,
                   limiter>>

NextFile ==
    \/ alive = "up" /\ \E mi \in FileRequests : SetCacheOp(mi, PersistMatch(mi))
    \/ alive = "up" /\ \E mi \in PersistReads : GetFromCacheOp(mi)
    \/ ClearCache
    \/ \E outcome \in SaveOutcomes : Del(outcome)
    \/ OtherInit
    \/ \E mi \in FileRequests : OtherSetCache(mi, PersistMatch(mi))
    \/ \E outcome \in SaveOutcomes : OtherDel(outcome)

SpecFile == InitPersist /\ [][NextFile]_vars

\* ------------------------------------------------------------------------
\* The cache of the older matcher, extractor.py TMDBMatcher (extractor.py:480-681)
\* ------------------------------------------------------------------------
\* the update-count threshold of the periodic save: len(self.cache) % 10 == 0
SaveEvery == 10

\* _get_cache_key (extractor.py:526-530): title.lower()|year or ''|type
ExtGetCacheKey(mi) ==
    Lower(mi.title) \o <<"|">> \o (IF Truthy(mi.year) THEN Str(mi.year) ELSE << >>)
        \o <<"|">> \o TypeChars(mi.type)

\* _is_cache_valid and _get_from_cache (extractor.py:532-547)
ExtGetFromCache(c, cache_key, t) ==
    IF cache_key \in DOMAIN c
    THEN IF t - c[cache_key].timestamp < CacheExpiry
         THEN [data |-> Some(c[cache_key].data), cache |-> c]
         ELSE [data |-> None, cache |-> [k \in DOMAIN c \ {cache_key} |-> c[k]]]
    ELSE [data |-> None, cache |-> c]

\* _save_cache (extractor.py:517-524): the file left behind
ExtSaveCache(c, d, outcome) ==
    IF outcome = "saved" THEN CacheFile(c)
    ELSE IF outcome = "partial" THEN CorruptFile
    ELSE d

\* _set_cache (extractor.py:549-557): the cache and the file left behind
ExtSetCache(c, d, cache_key, data, t, outcome) ==
    LET c2 == [k \in DOMAIN c \cup {cache_key} |->
                  IF k = cache_key THEN [data |-> data, timestamp |-> t] ELSE c[k]]
    IN  [cache |-> c2,
         disk |-> IF Cardinality(DOMAIN c2) % SaveEvery = 0 THEN ExtSaveCache(c2, d, outcome)
                  ELSE d]

\* the requests: two episodes of a show, and a film under two spellings
ExtRequests == PersistReads \cup {r \in Requests : r.type = "movie" /\ Len(r.title) = 2}

InitExt ==
    /\ cache = EmptyCache
    /\ now = 0
    /\ pc = "idle"
    /\ calls = 0
    /\ media_info = None
    /\ retry = IdleRetry
    /\ loop = IdleLoop
    /\ ret = None
    /\ entry = None
    /\ seen = << >>
    /\ lookups = {}
    /\ trace = IdleTrace
    /\ found = [r \in ExtRequests |-> None]
    /\ nomatch = {}
    /\ disk = NoFile
    /\ alive = "up"
    /\ boot = [file |-> NoFile, cache |-> EmptyCache]
    /\ analysis = IdleAnalysis
    /\ batch = IdleBatch
    /\ searches = None
    /\ other = NoOther
    /\ cleared = None
    /\ limiter = IdleLimiter

\* self._set_cache(cache_key, result) for a request (extractor.py:561, 582-583)
ExtSetCacheOp(mi, data, outcome) ==
    /\ pc = "idle"
    /\ cache' = ExtSetCache(cache, disk, ExtGetCacheKey(mi), data, now, outcome).cache
    /\ disk' = ExtSetCache(cache, disk, ExtGetCacheKey(mi), data, now, outcome).disk
    /\ found' = [found EXCEPT ![mi] = Some([data |-> data, at |-> now])]
    /\ UNCHANGED <<now, pc, calls, media_info, retry, loop, ret, entry, seen, lookups, trace,
                   nomatch, alive, boot, analysis, batch, searches, other, cleared, limiter>>

\* self._get_from_cache(cache_key) for a request (extractor.py:561-569)
ExtGetFromCacheOp(mi) ==
    /\ pc = "idle"
    /\ cache' = ExtGetFromCache(cache, ExtGetCacheKey(mi), now).cache
    /\ ret' = Some([result |-> ExtGetFromCache(cache, ExtGetCacheKey(mi), now).data,
                    hit |-> ExtGetFromCache(cache, ExtGetCacheKey(mi), now).data # None])
    /\ media_info' = Some(mi)
    /\ entry' = Some([at |-> now, prior |-> found[mi], missed |-> FALSE])
    /\ UNCHANGED <<now, pc, calls, retry, loop, seen, lookups, trace, found, nomatch,
                   disk, alive, boot, analysis, batch, searches, other, cleared, limiter>>

NextExt ==
    \/ \E mi \in ExtRequests : ExtSetCacheOp(mi, PersistMatch(mi), "saved")
    \/ \E mi \in ExtRequests : ExtGetFromCacheOp(mi)
    \/ Tick

SpecExt == InitExt /\ [][NextExt]_vars

\* ========================================================================
\* The filename analyzer called (filename_analyzer.py:132-229)
\* ========================================================================
\* the first word of every file name analysed
TitleWord == Cs("show")

\* the tokens that follow it
Vocabulary ==
    {Cs("S01E03"), Cs("s00e01"), Cs("s01e00"), Cs("s02"), Cs("french"), Cs("eng"),
     Cs("multi"), Cs("2019"), Cs("beginning")}

\* the extension of every file name analysed
Extension == Cs("mkv")

RECURSIVE JoinDots(_)
JoinDots(tokens) ==
    IF Len(tokens) = 1 THEN tokens[1] ELSE tokens[1] \o Cs(".") \o JoinDots(Tail(tokens))

\* the tokens of the technical names: a video codec, with and without a release
\* group after it, two resolutions and two subtitle markers
TechnicalTokens ==
    {Cs("x264"), Cs("x264-GRP"), Cs("720p"), Cs("1080p"), Cs("vostfr"), Cs("subfr")}

\* the title word, up to MaxTokens tokens of one vocabulary, no token twice, and the
\* extension
NamesOf(vocabulary) ==
    UNION { { JoinDots(<<TitleWord>> \o q \o <<Extension>>) :
                q \in {t \in [1..n -> vocabulary] : \A i, j \in 1..n : i # j => t[i] # t[j]} } :
            n \in 0..MaxTokens }

\* the filename argument
Names == NamesOf(Vocabulary) \cup NamesOf(TechnicalTokens)

\* the category argument
Categories == {Cs(""), Cs("Movies")}

\* one stream of ffmpeg.probe's answer
Stream(codec_type, codec_name, width, height, language) ==
    [codec_type |-> codec_type, codec_name |-> Cs(codec_name), width |-> width,
     height |-> height, language |-> language]

\* the answers of ffmpeg.probe: the streams of the file, None when it raises
Probes ==
    { None,
      Some(<< >>),
      Some(<<Stream("video", "hevc", 1920, 1080, None),
        Stream("audio", "truehd", NoneI, NoneI, Some(Cs("ENG")))>>),
      Some(<<Stream("video", "h264", NoneI, NoneI, None),
        Stream("audio", "aac", NoneI, NoneI, Some(Cs("fre"))),
        Stream("audio", "dts", NoneI, NoneI, Some(Cs("eng"))),
        Stream("subtitle", "subrip", NoneI, NoneI, Some(Cs("fre")))>>) }

\* analyze_filename called with a filename and a category
InitAnalyze ==
    /\ \E filename \in Names, category \in Categories :
           analysis = [pc |-> "called", filename |-> filename, category |-> category,
                       found |-> None, probed |-> FALSE, raised |-> FALSE,
                       file_info |-> EmptyInfo, info |-> None]
    /\ cache = EmptyCache
    /\ now = 0
    /\ pc = "idle"
    /\ calls = 0
    /\ media_info = None
    /\ retry = IdleRetry
    /\ loop = IdleLoop
    /\ ret = None
    /\ entry = None
    /\ seen = {}
    /\ lookups = 0
    /\ trace = << >>
    /\ found = None
    /\ nomatch = FALSE
    /\ disk = NoFile
    /\ alive = "up"
    /\ boot = [file |-> NoFile, cache |-> EmptyCache]
    /\ batch = IdleBatch
    /\ searches = None
    /\ other = NoOther
    /\ cleared = None
    /\ limiter = IdleLimiter

\* analyze_filename up to the title (filename_analyzer.py:134-223); found is what
\* _extract_season_episode returned when it was called (filename_analyzer.py:206-207)
AnalyzeFilename ==
    /\ analysis.pc = "called"
    /\ analysis' = [analysis EXCEPT
                       !.pc = "named",
                       !.found = IF DetermineType(Lower(analysis.filename),
                                                  analysis.category) \in TvTypes
                                 THEN Some(ExtractSeasonEpisode(Lower(analysis.filename)))
                                 ELSE None,
                       !.info = Some(AnalyzeName(analysis.filename, analysis.category))]
    /\ UNCHANGED <<cache, now, pc, calls, media_info, retry, loop, ret, entry, seen, lookups,
                   trace, found, nomatch, disk, alive, boot, batch, searches, other, cleared,
                   limiter>>

\* filename_analyzer.py:226 and 234-239: no file_path, no file analyzer, an analyzer that
\* is not available, or a path that is neither a file nor a directory
SkipProbe ==
    /\ analysis.pc = "named"
    /\ analysis' = [analysis EXCEPT !.pc = "returned"]
    /\ UNCHANGED <<cache, now, pc, calls, media_info, retry, loop, ret, entry, seen, lookups,
                   trace, found, nomatch, disk, alive, boot, batch, searches, other, cleared,
                   limiter>>

\* _enhance_with_file_analysis of a file (filename_analyzer.py:231-264): probe is
\* what ffmpeg.probe answered, None when it raised; list(set) gives the merged lists
\* in some order
EnhanceWithFileAnalysis(probe, languages, subtitles) ==
    /\ analysis.pc = "named"
    /\ analysis' = [analysis EXCEPT
                       !.pc = "returned",
                       !.probed = TRUE,
                       !.raised = (probe = None),
                       !.file_info = AnalyzeFile(probe),
                       !.info = Some(Enhance(analysis.info[1], AnalyzeFile(probe), languages,
                                             subtitles))]
    /\ UNCHANGED <<cache, now, pc, calls, media_info, retry, loop, ret, entry, seen, lookups,
                   trace, found, nomatch, disk, alive, boot, batch, searches, other, cleared,
                   limiter>>

\* the orders list(set) may give the union of a list and a set
MergedOrders(list, set) == Orders(Elements(list) \cup set)

NextAnalyze ==
    \/ AnalyzeFilename
    \/ SkipProbe
    \/ /\ analysis.pc = "named"
       /\ \E probe \in Probes :
              \E languages \in MergedOrders(analysis.info[1].languages,
                                            AnalyzeFile(probe).languages),
                 subtitles \in MergedOrders(analysis.info[1].subtitles,
                                            AnalyzeFile(probe).subtitles) :
                  EnhanceWithFileAnalysis(probe, languages, subtitles)

SpecAnalyze == InitAnalyze /\ [][NextAnalyze]_vars

\* ------------------------------------------------------------------------
\* Batch runs: extract_all, upload_all, mass_upload_from_directory
\* ------------------------------------------------------------------------
\* a batch function called: the items it will find, and whether the output
\* directory exists (extract_all reads the torrents from the client)
InitBatch ==
    /\ \E kind \in BatchKinds :
           \E items \in ItemLists(kind),
              exists \in (IF kind = "extract_all" THEN {TRUE} ELSE BOOLEAN) :
               batch = [pc |-> "called", kind |-> kind, exists |-> exists, items |-> items,
                        next |-> 1, results |-> NewResults(<< >>), processed |-> << >>]
    /\ cache = EmptyCache
    /\ now = 0
    /\ pc = "idle"
    /\ calls = 0
    /\ media_info = None
    /\ retry = IdleRetry
    /\ loop = IdleLoop
    /\ ret = None
    /\ entry = None
    /\ seen = {}
    /\ lookups = 0
    /\ trace = << >>
    /\ found = None
    /\ nomatch = FALSE
    /\ disk = NoFile
    /\ alive = "up"
    /\ boot = [file |-> NoFile, cache |-> EmptyCache]
    /\ analysis = IdleAnalysis
    /\ searches = None
    /\ other = NoOther
    /\ cleared = None
    /\ limiter = IdleLimiter

\* extract_all up to its loop (extractor.py:705-721)
ExtractAll ==
    /\ batch.pc = "called"
    /\ batch.kind = "extract_all"
    /\ batch' = [batch EXCEPT !.pc = "loop", !.results = NewResults(batch.items)]
    /\ UNCHANGED <<cache, now, pc, calls, media_info, retry, loop, ret, entry, seen, lookups,
                   trace, found, nomatch, disk, alive, boot, analysis, searches, other,
                   cleared, limiter>>

\* upload_all and mass_upload_from_directory up to their loops (uploader.py:304-318,
\* lacale.py:554-571): FileNotFoundError without the output directory, the
\* zero counts without items
Started(run) ==
    IF ~run.exists
    THEN [run EXCEPT !.pc = "raised"]
    ELSE IF run.items = << >>
         THEN [run EXCEPT !.pc = "returned"]
         ELSE [run EXCEPT !.pc = "loop", !.results = NewResults(run.items)]

UploadAll ==
    /\ batch.pc = "called"
    /\ batch.kind = "upload_all"
    /\ batch' = Started(batch)
    /\ UNCHANGED <<cache, now, pc, calls, media_info, retry, loop, ret, entry, seen, lookups,
                   trace, found, nomatch, disk, alive, boot, analysis, searches, other,
                   cleared, limiter>>

MassUploadFromDirectory ==
    /\ batch.pc = "called"
    /\ batch.kind = "mass_upload_from_directory"
    /\ batch' = Started(batch)
    /\ UNCHANGED <<cache, now, pc, calls, media_info, retry, loop, ret, entry, seen, lookups,
                   trace, found, nomatch, disk, alive, boot, analysis, searches, other,
                   cleared, limiter>>

\* one iteration of the loop (extractor.py:723-738, uploader.py:320-328,
\* lacale.py:575-593)
ProcessItem ==
    /\ batch.pc = "loop"
    /\ batch.next <= Len(batch.items)
    /\ batch' = [batch EXCEPT
                    !.results = Counted(@, batch.items[batch.next]),
                    !.processed = Append(@, batch.next),
                    !.next = NextItem(@, Len(batch.items), batch.items[batch.next])]
    /\ UNCHANGED <<cache, now, pc, calls, media_info, retry, loop, ret, entry, seen, lookups,
                   trace, found, nomatch, disk, alive, boot, analysis, searches, other,
                   cleared, limiter>>

\* return results (extractor.py:740, uploader.py:330, lacale.py:596)
ReturnResults ==
    /\ batch.pc = "loop"
    /\ batch.next > Len(batch.items)
    /\ batch' = [batch EXCEPT !.pc = "returned"]
    /\ UNCHANGED <<cache, now, pc, calls, media_info, retry, loop, ret, entry, seen, lookups,
                   trace, found, nomatch, disk, alive, boot, analysis, searches, other,
                   cleared, limiter>>

NextBatch ==
    \/ ExtractAll
    \/ UploadAll
    \/ MassUploadFromDirectory
    \/ ProcessItem
    \/ ReturnResults

SpecBatch == InitBatch /\ [][NextBatch]_vars

\* ------------------------------------------------------------------------
\* RateLimiter.wait_if_needed, called before every upload (uploader.py:113-115)
\* ------------------------------------------------------------------------
InitLimit ==
    /\ \E limits \in Limits :
           limiter = [requests_per_minute |-> limits.requests_per_minute,
                      burst_size |-> limits.burst_size, requests |-> << >>,
                      proceeded |-> << >>]
    /\ cache = EmptyCache
    /\ now = 0
    /\ pc = "idle"
    /\ calls = 0
    /\ media_info = None
    /\ retry = IdleRetry
    /\ loop = IdleLoop
    /\ ret = None
    /\ entry = None
    /\ seen = {}
    /\ lookups = 0
    /\ trace = << >>
    /\ found = None
    /\ nomatch = FALSE
    /\ disk = NoFile
    /\ alive = "up"
    /\ boot = [file |-> NoFile, cache |-> EmptyCache]
    /\ analysis = IdleAnalysis
    /\ batch = IdleBatch
    /\ searches = None
    /\ other = NoOther
    /\ cleared = None

\* wait_if_needed (uploader.py:40-62): now is read once, the two sleeps follow,
\* and now is what is appended; the call returns when the sleeps are over
WaitIfNeeded ==
    /\ Len(limiter.proceeded) < MaxRequests
    /\ now <= MaxClock
    /\ LET requests == Pruned(limiter.requests, now)
           slept == MinuteSleep(requests, now, limiter.requests_per_minute)
                    + BurstSleep(requests, now, limiter.burst_size)
       IN  /\ limiter' = [limiter EXCEPT !.requests = Append(requests, now),
                                         !.proceeded = Append(@, now + slept)]
           /\ now' = now + slept
    /\ UNCHANGED <<cache, pc, calls, media_info, retry, loop, ret, entry, seen, lookups, trace,
                   found, nomatch, disk, alive, boot, analysis, batch, searches, other, cleared>>

\* time passes between two calls
Pass(d) ==
    /\ limiter.proceeded # << >>
    /\ Len(limiter.proceeded) < MaxRequests
    /\ now + d <= MaxClock
    /\ now' = now + d
    /\ UNCHANGED <<cache, pc, calls, media_info, retry, loop, ret, entry, seen, lookups, trace,
                   found, nomatch, disk, alive, boot, analysis, batch, searches, other, cleared,
                   limiter>>

NextLimit ==
    \/ WaitIfNeeded
    \/ \E d \in Delays : Pass(d)

SpecLimit == InitLimit /\ [][NextLimit]_vars

\* ========================================================================
\* Properties
\* ========================================================================
\* the word count of the request's title and the 60% floor rounded up
TitleWords == Len(Split(media_info[1].title))
Ceil60(n) == (6 * n + 9) \div 10

\* a match_media call has returned and nothing runs
Returned == pc = "idle" /\ ret # None /\ media_info # None
\* ... and it went through the search, not the cache
Searched == Returned /\ ~ret[1].hit

\* the request is of a type the retry loop searches for
KnownType == media_info[1].type \in {"movie", "tvshow", "anime"}

\* C1: a call on a title of N words makes at most N - ceil(0.6 N) + 1 search attempts.
C1_AttemptBound ==
    media_info # None => Len(seen) <= TitleWords - Ceil60(TitleWords) + 1

\* C2: no attempt queries a title of fewer than ceil(0.6 N) words.
C2_FloorRespected ==
    media_info # None =>
        /\ \A i \in 1..Len(seen) : seen[i].words >= Ceil60(TitleWords)
        /\ pc \notin {"idle"} => Len(retry.current_words) >= Ceil60(TitleWords)

\* an attempt whose result the retry loop returns at once
StopsRetry(e) ==
    e.result # None /\ (~RLt(e.score, R(60)) \/ e.title = media_info[1].title)

\* the title without its last word
WithoutLastWord(t) == LET w == Split(t) IN Join(SubSeq(w, 1, Len(w) - 1))

\* the highest-scoring result of the attempts, the earliest on equal scores
BestSeen(s) ==
    LET Has == {i \in 1..Len(s) : s[i].result # None}
    IN  IF Has = {} THEN None
        ELSE LET b == CHOOSE i \in Has :
                          \A j \in Has : /\ RLe(s[j].score, s[i].score)
                                         /\ j < i => RLt(s[j].score, s[i].score)
             IN  s[b].result

\* C3: an attempt's result is returned at once exactly when it is there and scores
\* >= 60 or was found under the original title; otherwise the next attempt queries
\* the title without its last word, and at the floor the call returns the
\* highest-scoring result of all attempts (the earliest on ties), or none.
C3_RetryReturn ==
    media_info # None =>
        /\ \A i \in 1..(Len(seen) - 1) : ~StopsRetry(seen[i])
        /\ \A i \in 2..Len(seen) : seen[i].title = WithoutLastWord(seen[i - 1].title)
        /\ (pc # "idle" /\ seen # << >>) =>
               /\ ~StopsRetry(seen[Len(seen)])
               /\ retry.current_title = WithoutLastWord(seen[Len(seen)].title)
        /\ (Searched /\ seen # << >>) =>
               IF StopsRetry(seen[Len(seen)])
               THEN ret[1].result = seen[Len(seen)].result
               ELSE /\ seen[Len(seen)].words <= MinWordCount(TitleWords)
                    /\ ret[1].result = BestSeen(seen)

\* C3 witness: three attempts, the last two found different candidates with equal
\* scores below 60, and the earlier one was returned.
C3_Witness ==
    /\ Searched
    /\ Len(seen) = 3
    /\ seen[2].result # None /\ seen[3].result # None
    /\ seen[2].result # seen[3].result
    /\ REq(seen[2].score, seen[3].score)
    /\ ret[1].result = seen[2].result

\* the last search for the request stored a result at most cache_expiry before
\* this call's lookup
PriorFresh ==
    /\ media_info # None /\ entry # None
    /\ entry[1].prior # None
    /\ entry[1].at - entry[1].prior[1].at <= CacheExpiry

\* C4: a call made within cache_expiry of a call that found a result for the same
\* request returns that result from the cache and issues no catalog call.
C4_CacheHit ==
    PriorFresh =>
        /\ pc = "idle"
        /\ ret # None /\ ret[1].hit
        /\ ret[1].result = Some(entry[1].prior[1].data)
        /\ lookups = {}

\* C4 witness: a hit exactly cache_expiry after the result was stored.
C4_Witness ==
    /\ PriorFresh /\ Returned /\ ret[1].hit
    /\ calls >= 2
    /\ entry[1].at - entry[1].prior[1].at = CacheExpiry

\* C5: a call that searched leaves an entry under its key exactly when it found a
\* result, and the entry holds that result; after a call that found nothing the
\* next call for the same request searches the catalog again.
C5_WriteThrough ==
    /\ Searched =>
           LET k == GetCacheKey(media_info[1])
           IN  IF ret[1].result = None
               THEN k \notin DOMAIN cache
               ELSE k \in DOMAIN cache /\ cache[k].data = ret[1].result[1]
    /\ (Returned /\ entry[1].missed) =>
           /\ ~ret[1].hit
           /\ KnownType => "search" \in lookups

\* C5 witness: a call found nothing, the next call for the same request searched
\* again and found a result, which is now in the cache.
C5_Witness ==
    /\ Searched /\ entry[1].missed
    /\ "search" \in lookups
    /\ ret[1].result # None
    /\ GetCacheKey(media_info[1]) \in DOMAIN cache

\* C6: _get_from_cache(k) after _set_cache(k, d) returns d while
\* now - timestamp <= cache_expiry and leaves the entry; once now - timestamp >
\* cache_expiry it returns nothing and the entry is gone.
C6_RoundTrip ==
    (media_info # None /\ entry # None /\ entry[1].prior # None) =>
        LET k == GetCacheKey(media_info[1])
            put == entry[1].prior[1]
            unchanged == found[media_info[1]] = entry[1].prior
        IN  IF entry[1].at - put.at <= CacheExpiry
            THEN /\ ret[1].result = Some(put.data)
                 /\ unchanged => /\ k \in DOMAIN cache
                                 /\ cache[k] = [data |-> put.data, timestamp |-> put.at]
            ELSE /\ ret[1].result = None
                 /\ unchanged => k \notin DOMAIN cache

\* C6 witness: a read after expiry that removed the entry, another entry staying.
C6_Witness ==
    /\ media_info # None /\ entry # None /\ entry[1].prior # None
    /\ entry[1].at - entry[1].prior[1].at > CacheExpiry
    /\ found[media_info[1]] = entry[1].prior
    /\ ret[1].result = None
    /\ DOMAIN cache # {}

\* C6 witness of the other half: a read within cache_expiry, after the clock moved.
C6_WitnessFresh ==
    /\ media_info # None /\ entry # None /\ entry[1].prior # None
    /\ entry[1].at - entry[1].prior[1].at = CacheExpiry
    /\ ret[1].result = Some(entry[1].prior[1].data)

\* the orderings of a list of search results
Orderings(results) ==
    { q \in [1..Len(results) -> {results[k] : k \in 1..Len(results)}] :
          \A i, j \in 1..Len(results) : i # j => q[i] # q[j] }

\* the last attempt of the call: its title, and the score of a candidate under it
LastTitle == seen[Len(seen)].title
ScoreOf(id) ==
    IF IsMovie(media_info[1])
    THEN MovieScore(LastTitle, media_info[1].year, CandById(id))
    ELSE TvScore(LastTitle, media_info[1].year, CandById(id))

\* the candidate a candidate loop selects, 0 for none
Selected(best_match) == IF best_match = None THEN 0 ELSE best_match[1].tmdb_id

\* C7: for a fixed title, year and set of candidates, no two of equal score, the
\* candidate loop selects the same candidate under every ordering of the candidates.
C7_OrderIndependent ==
    (/\ Searched /\ seen # << >> /\ ~seen[Len(seen)].raised /\ trace.results # << >>
     /\ \A k \in 1..Len(trace.results) : ~ScoreOf(trace.results[k]).raised
     /\ \A i, j \in 1..Len(trace.results) :
            i # j => ~REq(ScoreOf(trace.results[i]).score, ScoreOf(trace.results[j]).score))
    => \A q \in Orderings(trace.results) :
           Selected(LoopFold(IsMovie(media_info[1]), LastTitle, media_info[1].year, q, 1,
                             None, R(0)).best_match)
               = Selected(seen[Len(seen)].result)

\* C8: a call that searched returns no match only if every attempt's search
\* failed or produced no candidates.
C8_NeverDropped ==
    (Searched /\ KnownType /\ ret[1].result = None) =>
        \A i \in 1..Len(seen) : seen[i].raised \/ seen[i].nocands

\* C9 (every catalog call): an exception of any catalog call of an attempt, the season and
\* episode lookups included, makes the attempt return (None, 0).
C9_AnyException ==
    \A i \in 1..Len(seen) :
        (seen[i].raised \/ seen[i].subraised) =>
            seen[i].result = None /\ REq(seen[i].score, R(0))

\* C9 (search and details calls): an exception of a search or details call, or while a response is
\* read, makes the attempt return (None, 0), whatever was scored before; an
\* exception of the season or episode lookup leaves the candidate in the loop with
\* season_data unset (episode_data too when the episode lookup raised); after a
\* failed attempt above the floor the next attempt queries the shorter title; and
\* a call whose attempts all returned nothing returns no match.
C9_ExceptionIsNoCandidates ==
    /\ \A i \in 1..Len(seen) :
           seen[i].raised => seen[i].result = None /\ REq(seen[i].score, R(0))
    /\ \A j \in 1..Len(trace.scored) :
           trace.scored[j].subfailed =>
               /\ trace.subraised
               /\ trace.scored[j].match.tmdb_id = trace.scored[j].id
               /\ trace.scored[j].match.season_data = None
               /\ \/ trace.scored[j].match.episode_data = None
                  \/ trace.scored[j].match.episode_data
                       = Some(<<trace.scored[j].id, media_info[1].season,
                                media_info[1].episode>>)
    /\ \A i \in 1..Len(seen) :
           (seen[i].raised /\ seen[i].words > MinWordCount(TitleWords)) =>
               \/ i < Len(seen) /\ seen[i + 1].words = seen[i].words - 1
               \/ i = Len(seen) /\ pc # "idle"
                    /\ Len(retry.current_words) = seen[i].words - 1
    /\ (Searched /\ \A i \in 1..Len(seen) : seen[i].result = None) =>
           ret[1].result = None

\* C9 witness: a details call raised after a candidate had been scored, the attempt
\* counted for nothing, a shorter title was tried and the call returned no match.
C9_Witness ==
    /\ Searched
    /\ Len(seen) >= 2
    /\ seen[1].raised /\ ~seen[1].nocands
    /\ seen[Len(seen)].raised
    /\ trace.scored # << >>
    /\ ret[1].result = None

\* C10: a candidate scoring >= 100 ends the candidate loop: it is the last one
\* scored and the last one looked up, and it is what the call returns.
C10_EarlyExit ==
    \A j \in 1..Len(trace.scored) :
        ~RLt(trace.scored[j].score, R(100)) =>
            /\ j = Len(trace.scored)
            /\ Len(trace.details) = j
            /\ pc = "idle"
            /\ ret # None /\ ret[1].result = Some(trace.scored[j].match)

\* C10 witness: the second of three candidates scored >= 100 after a lower first
\* one, and the third was never looked up.
C10_Witness ==
    /\ Searched
    /\ Len(trace.scored) >= 2
    /\ ~RLt(trace.scored[Len(trace.scored)].score, R(100))
    /\ Len(trace.results) > Len(trace.scored)
    /\ Len(trace.details) = Len(trace.scored)

\* the last attempt of the call ran its candidate loop to the end: nothing raised,
\* and no candidate scored >= 100
LoopRanThrough ==
    /\ Searched /\ seen # << >> /\ ~seen[Len(seen)].raised
    /\ trace.results # << >>
    /\ \A j \in 1..Len(trace.scored) : RLt(trace.scored[j].score, R(100))

\* C11: a candidate loop that does not exit early scores every candidate, and the
\* candidate it returns has the maximum score of them all and is the earliest in
\* the result list of those with that score.
C11_MaxFirstSeen ==
    LoopRanThrough =>
        /\ Len(trace.scored) = Len(trace.results)
        /\ \A j \in 1..Len(trace.scored) : trace.scored[j].id = trace.results[j]
        /\ seen[Len(seen)].result # None =>
               \E p \in 1..Len(trace.scored) :
                   /\ seen[Len(seen)].result = Some(trace.scored[p].match)
                   /\ REq(seen[Len(seen)].score, trace.scored[p].score)
                   /\ \A j \in 1..Len(trace.scored) :
                          /\ RLe(trace.scored[j].score, trace.scored[p].score)
                          /\ j < p => RLt(trace.scored[j].score, trace.scored[p].score)

\* C11 witness: three candidates scored, the first two share the maximum score and
\* the first of them is returned.
C11_Witness ==
    /\ LoopRanThrough
    /\ Len(trace.scored) = 3
    /\ REq(trace.scored[1].score, trace.scored[2].score)
    /\ RLt(trace.scored[3].score, trace.scored[1].score)
    /\ seen[Len(seen)].result = Some(trace.scored[1].match)

\* the title the candidates of the trace were scored under
TraceTitle == IF pc = "idle" THEN seen[Len(seen)].title ELSE retry.current_title

\* the title contribution of the score table: the first row that holds
TableTitle(q, primary, original) ==
    IF q = primary THEN R(100)
    ELSE IF q = original THEN R(90)
    ELSE IF IsSubstring(q, primary) THEN R(70)
    ELSE IF IsSubstring(q, original) THEN R(60)
    ELSE IF IsSubstring(primary, q) THEN R(50)
    ELSE IF IsSubstring(original, q) THEN R(40)
    ELSE LET a == Ratio(q, primary)
             b == Ratio(q, original)
         IN  IF RLt(a, b) THEN <<30 * b[1], b[2]>> ELSE <<30 * a[1], a[2]>>

\* the year contribution of the score table
TableYear(year, date) ==
    LET y == YearPart(date)
    IN  IF year = NoneI \/ year = 0 \/ date = << >> \/ ~IntParses(y) THEN 0
        ELSE IF IntOf(y) = year THEN 20
        ELSE IF Abs(IntOf(y) - year) <= 2 THEN 10
        ELSE 0

\* the length penalty of the score table
TablePenalty(q, primary) ==
    IF Abs(Len(q) - Len(primary)) > 10 THEN Abs(Len(q) - Len(primary)) ELSE 0

\* the score of the table for a candidate
TableScore(title, year, c) ==
    RAdd(TableTitle(Lower(title), Lower(c.title), Lower(c.original_title)),
         R(TableYear(year, c.date) - TablePenalty(Lower(title), Lower(c.title))))

Lag ==
    Cardinality({k \in DOMAIN cache :
                     \/ disk.state # "ok"
                     \/ k \notin DOMAIN disk.data
                     \/ disk.data[k] # cache[k]})

\* C13: while the matcher runs, the cache file lags the in-memory cache by less
\* than one save threshold of entries.
C13_FileLag == alive = "up" => Lag < SaveEvery

\* C14: requests that differ in one of title, year, type, season, episode have
\* different cache keys: what a request reads from the cache is what was last
\* stored for that very request, never the entry of another one.
C14_OwnEntry ==
    (media_info # None /\ entry # None /\ ret # None /\ ret[1].hit) =>
        /\ entry[1].prior # None
        /\ ret[1].result = Some(entry[1].prior[1].data)

\* the cache holds exactly what was stored since construction
OnlyStored ==
    \A k \in DOMAIN cache :
        \E r \in DOMAIN found :
            /\ k = GetCacheKey(r)
            /\ found[r] # None
            /\ cache[k] = [data |-> found[r][1].data, timestamp |-> found[r][1].at]

\* after a cache file that could not be read: the matcher starts empty, and stores
\* and reads work on what was stored since
LoadFailureContained ==
    boot.file.state = "corrupt" =>
        /\ boot.cache = EmptyCache
        /\ OnlyStored
        /\ (ret # None /\ ret[1].hit) => ret[1].result = Some(entry[1].prior[1].data)

\* a save that fails changes neither the cache nor the last result
SaveFailureContained ==
    (alive = "up" /\ alive' \in {"unopened", "partial"}) => (cache' = cache /\ ret' = ret)

\* C15: a cache file that cannot be read gives an empty cache and a matcher that
\* works on from there; a save that fails leaves the cache in memory and the
\* result of the last match as they were.
C15_CacheIOContained == [](LoadFailureContained) /\ [][SaveFailureContained]_vars

\* C15 witness: built over an unreadable file, the matcher stored and read back a
\* result, and the save at its end failed after truncating the file.
C15_Witness ==
    /\ boot.file.state = "corrupt"
    /\ ret # None /\ ret[1].hit
    /\ Cardinality(DOMAIN cache) >= 2
    /\ alive = "partial"
    /\ disk = CorruptFile

\* ------------------------------------------------------------------------
\* The MediaInfo analyze_filename returns
\* ------------------------------------------------------------------------
AnalysisReturned == analysis.pc = "returned"
ReturnedInfo == analysis.info[1]

\* the filename carries an explicit multi marker
MultiMarker == ReSearch(multi_pattern, Lower(analysis.filename)).ok

\* the distinct languages of the returned MediaInfo
DistinctLanguages == Cardinality(Elements(ReturnedInfo.languages))

\* C16: in every MediaInfo analyze_filename returns, with or without file probing,
\* is_multi_language is true if and only if the filename carries an explicit multi
\* marker or the languages field holds more than one distinct language
C16_MultiLanguage ==
    AnalysisReturned =>
        (ReturnedInfo.is_multi_language <=> (MultiMarker \/ DistinctLanguages > 1))

\* what _extract_season_episode found
SeasonFound == analysis.found # None /\ analysis.found[1].season # NoneI
EpisodeFound == analysis.found # None /\ analysis.found[1].episode # NoneI

\* C17: in every MediaInfo analyze_filename returns, full_season is true if and only
\* if the season/episode extraction found a season number and no episode number,
\* whatever the numbers, 0 included; when it found both, season and episode are both
\* set and full_season is false; season, episode and full_season are set only when
\* the type is tvshow or anime
C17_FullSeason ==
    AnalysisReturned =>
        /\ ReturnedInfo.full_season <=> (SeasonFound /\ ~EpisodeFound)
        /\ (SeasonFound /\ EpisodeFound) =>
               /\ ReturnedInfo.season = analysis.found[1].season
               /\ ReturnedInfo.episode = analysis.found[1].episode
               /\ ~ReturnedInfo.full_season
        /\ ReturnedInfo.type \notin TvTypes =>
               /\ ReturnedInfo.season = NoneI
               /\ ReturnedInfo.episode = NoneI
               /\ ~ReturnedInfo.full_season

TechnicalFields ==
    {"source", "version", "team", "resolution", "video_codec", "audio_codec", "hdr", "platform"}

\* a field that is unset or holds a token without a lower-case letter
UpperToken(v) == v = None \/ v[1] = Upper(v[1])

\* C18: in every MediaInfo analyze_filename returns, whether or not file probing was
\* merged in, each technical field (source, version, team, resolution, video_codec,
\* audio_codec, hdr, platform) is either unset or an all-uppercase token
C18_UppercaseFields ==
    AnalysisReturned => \A f \in TechnicalFields : UpperToken(ReturnedInfo[f])

\* the title is computed: analyze_filename is past line 223
TitleCleaned == analysis.pc = "named"

\* the tokens of a name or title: what its separators stand between
TokensOf(s) == Split(ReSub(separators, Cs(" "), Lower(s)))

\* a token as it stands in a file name, between two separators
Dotted(token) == Cs(".") \o token \o Cs(".")

\* the token is the detected year, a season/episode marker of a TV release, the name
\* of a detected language or a technical token
NoiseToken(token) ==
    \/ ReturnedInfo.year # NoneI /\ token = NatStr(ReturnedInfo.year)
    \/ analysis.found # None /\ ExtractSeasonEpisode(Dotted(token)).season # NoneI
    \/ \E n \in DOMAIN LANGUAGE_PATTERNS :
           /\ InList(LANGUAGE_PATTERNS[n].name, ReturnedInfo.languages)
           /\ FirstMatch(LANGUAGE_PATTERNS[n].patterns, Dotted(token)).ok
    \/ \E patterns \in {RESOLUTION_PATTERNS, HDR_PATTERNS, VIDEO_CODEC_PATTERNS,
                         AUDIO_CODEC_PATTERNS, FILE_SOURCE_PATTERNS, PLATFORM_PATTERNS,
                         SPECIAL_VERSION_PATTERNS} :
           FirstMatch(patterns, Dotted(token)).ok

\* no token that stands after a noise token of the name is a word of the title
NothingAfterNoise(tokens, words) ==
    \A k, j \in DOMAIN tokens :
        (k < j /\ NoiseToken(tokens[k])) => ~InList(tokens[j], words)

\* C19: the cleaned title never contains a token of the file name that stands after
\* the earliest detected technical token, year or season/episode marker; for a TV
\* release the title is cut before the season marker, not rebuilt from what is left
\* once the marker is removed
C19_TitleBeforeNoise ==
    TitleCleaned => NothingAfterNoise(TokensOf(analysis.filename), TokensOf(ReturnedInfo.title))

\* len(title.split(sep)) for a separator of one character
Parts(title, sep) == Cardinality({i \in DOMAIN title : title[i] = sep}) + 1

\* the title is too short to be cleaned (extractor.py:397)
TooShort(title) == Parts(title, " ") < 3 /\ Parts(title, ".") < 3

\* the title of a candidate that is too short has the candidate's tokens, all of them
KeptAsIs(candidate, title) == TooShort(candidate) => TokensOf(title) = TokensOf(candidate)

\* C20: when the title candidate has fewer than 3 space-separated parts and fewer than
\* 3 dot-separated parts, title cleaning is skipped and the title is returned as it
\* is, no token truncated or removed
C20_ShortTitleKept ==
    TitleCleaned => KeptAsIs(TitleCandidate(Lower(analysis.filename)), ReturnedInfo.title)

\* the token is recognized by a pattern of a technical field: a resolution, an HDR
\* format, a codec, a source, a platform or a special version
TechnicalToken(token) ==
    \E patterns \in {RESOLUTION_PATTERNS, HDR_PATTERNS, VIDEO_CODEC_PATTERNS,
                     AUDIO_CODEC_PATTERNS, FILE_SOURCE_PATTERNS, PLATFORM_PATTERNS,
                     SPECIAL_VERSION_PATTERNS} :
        FirstMatch(patterns, Dotted(token)).ok

\* C21: the team field is never set to a token that is a codec, a source or another
\* technical abbreviation of the filename: when the last token before the extension
\* is a technical token and no release group follows it, team stays unset
C21_TeamNotTechnical ==
    AnalysisReturned =>
        (ReturnedInfo.team = None \/ ~TechnicalToken(Lower(ReturnedInfo.team[1])))

\* the fields a probe may change
ProbedFields == {"video_codec", "audio_codec", "resolution", "languages", "subtitles"}

\* the fields of a MediaInfo of the analyzer
InfoFields == DOMAIN AnalyzeName(TitleWord, Cs(""))

\* the probed value when there is one, the value of the filename otherwise
Overridden(before, probed) == IF probed # None THEN probed ELSE before

\* after is before with file_info merged in
Merged(before, after, file_info) ==
    /\ after.video_codec = Overridden(before.video_codec, file_info.video_codec)
    /\ after.audio_codec = Overridden(before.audio_codec, file_info.audio_codec)
    /\ after.resolution = Overridden(before.resolution, file_info.resolution)
    /\ Elements(after.languages) = Elements(before.languages) \cup file_info.languages
    /\ Elements(after.subtitles) = Elements(before.subtitles) \cup file_info.subtitles
    /\ \A f \in InfoFields \ ProbedFields : after[f] = before[f]

\* a step of analyze_filename that merges a probe
MergeStep == analysis.pc = "named" /\ analysis'.pc = "returned" /\ analysis'.probed

\* C22: merging a file probe into a MediaInfo replaces video_codec, audio_codec and
\* resolution with the probed value exactly when the probed value is present and
\* leaves them unchanged otherwise, sets languages and subtitles to the set union of
\* the filename's and the probed values, and leaves every other field unchanged
C22_MergePolicy ==
    [][MergeStep => Merged(analysis.info[1], analysis'.info[1], analysis'.file_info)]_vars

\* a probe was merged that had a video codec and no resolution, into a MediaInfo with
\* a resolution and a language of its own, and brought a language more
C22_Witness ==
    /\ AnalysisReturned /\ analysis.probed
    /\ analysis.file_info.video_codec # None
    /\ analysis.file_info.resolution = None
    /\ ReturnedInfo.resolution # None
    /\ Elements(ReturnedInfo.languages) # analysis.file_info.languages
    /\ analysis.file_info.languages # {}

\* all fields equal, languages and subtitles as sets
SameAsSets(before, after) ==
    /\ Elements(after.languages) = Elements(before.languages)
    /\ Elements(after.subtitles) = Elements(before.subtitles)
    /\ \A f \in InfoFields \ {"languages", "subtitles"} : after[f] = before[f]

\* a step of analyze_filename that ends without a probe's answer: there is no file or
\* no available inspection tool, or ffmpeg.probe raised
FailedProbeStep ==
    /\ analysis.pc = "named" /\ analysis'.pc = "returned"
    /\ ~analysis'.probed \/ analysis'.raised

\* C23: when the file inspection tool is unavailable or the probe throws, the probe
\* yields an empty map without raising, and analyze_filename returns a MediaInfo whose
\* fields all equal the filename-only result, languages and subtitles as sets
C23_ProbeFailure ==
    [][FailedProbeStep =>
          /\ analysis'.file_info = EmptyInfo
          /\ SameAsSets(analysis.info[1], analysis'.info[1])]_vars

\* ffmpeg.probe raised for a file whose name gave a resolution and a language
C23_Witness ==
    /\ AnalysisReturned /\ analysis.raised
    /\ ReturnedInfo.resolution # None
    /\ ReturnedInfo.languages # << >>

\* the lower-cased name the patterns are searched in
SearchedName == Lower(analysis.filename)

\* the first pattern of the list found in the name gives the field, upper-cased, and
\* a field none of whose patterns is found has its default
FirstPatternWins(patterns, field, default) ==
    /\ \A n \in DOMAIN patterns :
           (/\ ReSearch(patterns[n], SearchedName).ok
            /\ \A m \in 1..(n - 1) : ~ReSearch(patterns[m], SearchedName).ok)
           => field = Some(RStrip(Upper(Group(SearchedName,
                                             ReSearch(patterns[n], SearchedName), 1))))
    /\ (\A n \in DOMAIN patterns : ~ReSearch(patterns[n], SearchedName).ok) => field = default

\* C25: for every filename matching at least one resolution pattern, the resolution
\* is the upper-case value of the first pattern, in the order of the pattern list,
\* that matches anywhere in the filename, whichever resolution token comes first in
\* the filename; the same rule gives each of the other technical fields
C25_FirstPatternWins ==
    TitleCleaned =>
        /\ FirstPatternWins(RESOLUTION_PATTERNS, ReturnedInfo.resolution, None)
        /\ FirstPatternWins(VIDEO_CODEC_PATTERNS, ReturnedInfo.video_codec, None)
        /\ FirstPatternWins(HDR_PATTERNS, ReturnedInfo.hdr, None)
        /\ FirstPatternWins(PLATFORM_PATTERNS, ReturnedInfo.platform, None)
        /\ FirstPatternWins(SPECIAL_VERSION_PATTERNS, ReturnedInfo.version,
                            Some(Cs("Original")))
        /\ FirstPatternWins(AUDIO_CODEC_PATTERNS, ReturnedInfo.audio_codec, None)
        /\ FirstPatternWins(FILE_SOURCE_PATTERNS, ReturnedInfo.source, None)

\* a name with 720p before 1080p was analysed: its resolution is that of the pattern
\* that comes first in the list, 1080P
C25_Witness ==
    /\ TitleCleaned
    /\ IsSubstring(Cs("720p.1080p"), SearchedName)
    /\ ReturnedInfo.resolution = Some(Cs("1080P"))

\* no string twice in a list
NoDuplicates(list) == \A i, j \in DOMAIN list : i # j => list[i] # list[j]

\* C26: in every MediaInfo analyze_filename returns, with or without file probing,
\* languages and subtitles never hold the same string twice
C26_NoDuplicates ==
    AnalysisReturned =>
        NoDuplicates(ReturnedInfo.languages) /\ NoDuplicates(ReturnedInfo.subtitles)

\* ------------------------------------------------------------------------
\* C24: in a batch run a failure or an exception on one item never stops the
\* items after it: every item is processed once, in order, and counted once as
\* success or failed, so that the run returns with success + failed = total
\* ------------------------------------------------------------------------
\* the items 1..n in order, each once
InOrder(n) == [i \in 1..n |-> i]

\* the items of the batch that ended in one of the outcomes
Ended(outcomes) == Cardinality({i \in DOMAIN batch.items : batch.items[i] \in outcomes})

C24_BatchCounts ==
    /\ batch.pc = "loop" =>
           /\ batch.processed = InOrder(batch.next - 1)
           /\ batch.results.success + batch.results.failed = batch.next - 1
    /\ batch.pc = "returned" =>
           /\ batch.results.total = Len(batch.items)
           /\ batch.processed = InOrder(Len(batch.items))
           /\ batch.results.success + batch.results.failed = batch.results.total
           /\ batch.results.success = Ended({"done"})
           /\ batch.results.failed = Ended({"refused", "raised"})

\* a batch has returned in which an item raised and an item after it succeeded
C24_Witness ==
    /\ batch.pc = "returned"
    /\ \E i, j \in DOMAIN batch.items :
           /\ i < j
           /\ batch.items[i] = "raised"
           /\ batch.items[j] = "done"
    /\ batch.results.failed > 0
    /\ batch.results.success > 0

\* ------------------------------------------------------------------------
\* C27: within one attempt the search is issued with the year when the request
\* has one; a second search of the same title without the year is issued
\* exactly when the first returned no results; an attempt never issues more
\* than two searches; the candidates scored are those of the last search issued
\* ------------------------------------------------------------------------
\* the searches of the running attempt, or of the last one
Issues == searches[1]

\* a search that answered with no results
Empty(search) == search.ok /\ search.results = << >>

\* the candidate loop runs
InLoop == pc \in {"details", "episode", "season"}

C27_SearchPolicy ==
    (searches # None /\ media_info # None /\ Issues # << >>) =>
        /\ Len(Issues) <= 2
        /\ Issues[1].year = media_info[1].year
        /\ pc \notin {"idle", "search"} => Issues[1].title = retry.current_title
        /\ Len(Issues) = 2 =>
               /\ Empty(Issues[1])
               /\ Issues[2].title = Issues[1].title
               /\ Issues[2].year = NoneI
        /\ (Len(Issues) = 1 /\ Empty(Issues[1])) <=> pc = "broader"
        /\ InLoop => loop.search_results = Issues[Len(Issues)].results
        /\ \A n \in DOMAIN trace.scored :
               trace.scored[n].id \in Elements(Issues[Len(Issues)].results)

\* a request with a year whose first search found nothing and whose second, without
\* the year, gave the candidates that were scored
C27_Witness ==
    /\ searches # None
    /\ media_info # None
    /\ media_info[1].year # NoneI
    /\ Len(Issues) = 2
    /\ Issues[1].year # NoneI
    /\ Issues[2].year = NoneI
    /\ trace.scored # << >>

\* ------------------------------------------------------------------------
\* C28: the cache file is only written by overwriting it with one matcher's
\* in-memory map, never merged with what it holds: a flush that writes leaves
\* exactly the flushing matcher's entries, so after a single owner's teardown
\* the file is its cache, and after two matchers loaded from the same file have
\* both flushed the file is the map of the one that flushed last, the entries
\* stored only by the other being lost
\* ------------------------------------------------------------------------
\* a step in which __del__ of the first, of the second matcher wrote the file
Flushed == alive = "up" /\ alive' = "saved"
OtherFlushed == other.alive = "up" /\ other'.alive = "saved"

\* the keys of a map that another lacks
Only(c, d) == DOMAIN c \ DOMAIN d

C28_WholesaleOverwrite ==
    [][/\ Flushed =>
              /\ disk' = CacheFile(cache)
              /\ cache' = cache
              /\ other.alive = "saved" =>
                     \A k \in Only(other.cache, cache) : k \notin DOMAIN disk'.data
       /\ OtherFlushed =>
              /\ disk' = CacheFile(other.cache)
              /\ other'.cache = other.cache
              /\ alive = "saved" =>
                     \A k \in Only(cache, other.cache) : k \notin DOMAIN disk'.data
       /\ (disk'.state = "ok" /\ disk' # disk) => (Flushed \/ OtherFlushed)
       /\ (alive' = "saved" /\ other'.alive \in {"none", "saved"} /\ ~OtherFlushed) =>
              disk' = CacheFile(cache')
       /\ (other'.alive = "saved" /\ alive' = "saved" /\ ~Flushed) =>
              disk' = CacheFile(other'.cache)]_vars

\* two matchers loaded from the same file have both flushed, the second last,
\* and an entry that only the first had stored is not in the file
C28_Witness ==
    /\ alive = "saved"
    /\ other.alive = "saved"
    /\ other.file = boot.file
    /\ disk = CacheFile(other.cache)
    /\ Only(other.cache, boot.cache) # {}
    /\ \E k \in Only(cache, boot.cache) : k \notin DOMAIN disk.data

\* ------------------------------------------------------------------------
\* C29: after clear_cache the in-memory cache is empty and the cache file is
\* deleted, and no entry stored before the clear is returned by a later lookup;
\* the deletion is not final: the teardown flush of the same matcher writes the
\* file again with what the cache holds then, an empty object if nothing was
\* stored since
\* ------------------------------------------------------------------------
\* the keys of the requests stored since clear_cache
StoredSince == {GetCacheKey(r) : r \in cleared[1]}

\* no flush of the second matcher has touched the file
OtherSilent == other.alive \in {"none", "up"}

C29_ClearCache ==
    cleared # None =>
        /\ DOMAIN cache \subseteq StoredSince
        /\ (ret # None /\ ret[1].hit) =>
               /\ media_info[1] \in cleared[1]
               /\ ret[1].result = Some(PersistMatch(media_info[1]))
        /\ (ret # None /\ media_info[1] \notin cleared[1]) => ret[1].result = None
        /\ (alive = "up" /\ OtherSilent) => disk = NoFile
        /\ (alive = "saved" /\ OtherSilent) => disk = CacheFile(cache)
        /\ (alive = "saved" /\ OtherSilent /\ cleared[1] = {}) => disk = CacheFile(EmptyCache)

\* a matcher that had loaded an entry cleared its cache, stored nothing more,
\* and its teardown has written the file again, empty
C29_Witness ==
    /\ cleared = Some({})
    /\ limiter = IdleLimiter
    /\ boot.cache # EmptyCache
    /\ boot.file.state = "ok"
    /\ other.alive = "none"
    /\ alive = "saved"
    /\ disk = CacheFile(EmptyCache)
    /\ ret # None
    /\ ret[1].result = None

\* ------------------------------------------------------------------------
\* C30: wait_if_needed lets a request proceed only when the limits hold in real
\* time: at most requests_per_minute of the times at which it returned lie in
\* any 60-second window, and at most burst_size in any 5-second window
\* ------------------------------------------------------------------------
\* the requests that proceeded in the window of a length that starts at start
Within(start, length) ==
    Cardinality({n \in DOMAIN limiter.proceeded :
                     /\ limiter.proceeded[n] >= start
                     /\ limiter.proceeded[n] < start + length})

\* the windows to look at start when a request proceeds
Starts == Elements(limiter.proceeded)

C30_RateLimits ==
    \A start \in Starts :
        /\ Within(start, MinuteWindow) <= limiter.requests_per_minute
        /\ Within(start, BurstWindow) <= limiter.burst_size

====
